---- MODULE Spec2Model ----
(***************************************************************************)
(* Order pricing, coupon redemption and shipping-tier administration of    *)
(* the storefront backend (backend/routes/order_routes.py,                 *)
(* coupon_routes.py, shipping_tier_routes.py, admin_routes.py).            *)
(*                                                                         *)
(* Money is kept in hundredths of a rupee (paise), so Python's             *)
(* round(x, 2) is rounding to an integer; floats are taken as exact        *)
(* decimals.  An Optional value is a set: {} is None, {v} is the value v.  *)
(* A document collection is a set of records (shipping_tiers, coupons) or  *)
(* a sequence in insertion order (orders, coupon_usage).                   *)
(*                                                                         *)
(* Spec, SpecShipping, SpecTier and SpecCoupon run every handler without   *)
(* interruption; SpecRace, SpecRaceAdmin and SpecTierRace split the        *)
(* handlers at their awaits on the database and interleave MaxReq          *)
(* requests.  SpecValidate, SpecEligibility, SpecAutoApply and             *)
(* SpecDiscount apply validate_tier_ranges, check_coupon_eligibility,      *)
(* get_best_auto_coupon and calculate_discount to stored data drawn from   *)
(* bounded sets.                                                           *)
(***************************************************************************)
EXTENDS Integers, Sequences, FiniteSets, TLC

VARIABLES shipping_tiers, coupons, coupon_usage, orders, gst_settings,
          return_requests, now, req, resp

vars == <<shipping_tiers, coupons, coupon_usage, orders, gst_settings, return_requests,
         now, req, resp>>

\* Everything but the tier table, the requests in flight and the response.
shop == <<coupons, coupon_usage, orders, gst_settings, return_requests, now>>

(***************************************************************************)
(* Bounds of the model.                                                    *)
(***************************************************************************)
MaxTiers == 2
MaxAmt == 3
MaxOrders == 1
MaxReq == 2

(***************************************************************************)
(* Optional values.                                                        *)
(***************************************************************************)
None == {}

Some(v) == {v}

Val(x) == CHOOSE v \in x : TRUE

NoReqs == [r \in 1..MaxReq |-> [pc |-> "idle"]]

(***************************************************************************)
(* Shipping tiers: shipping_tier_routes.py                                 *)
(***************************************************************************)
TierIds == 1..MaxTiers

\* Inputs an admin may send: amounts include one negative value.
TierMinVals == (-1)..MaxAmt

TierMaxVals == {None} \cup {Some(v) : v \in 0..MaxAmt}

TierChargeVals == {-1, 0, 5}

OptBool == {None, Some(TRUE), Some(FALSE)}

\* The loop body without its third case (the new range enclosing the tier).
TierConflict_NoEnclosing(tier, new_min, new_max) ==
    LET tier_min == tier.min_amount
        tier_max == tier.max_amount
    IN  \/ IF tier_max = None
              THEN new_min >= tier_min
              ELSE tier_min <= new_min /\ new_min <= Val(tier_max)
        \/ /\ new_max # None
           /\ IF tier_max = None
                 THEN Val(new_max) >= tier_min
                 ELSE tier_min <= Val(new_max) /\ Val(new_max) <= Val(tier_max)

\* The body of the loop of validate_tier_ranges for one existing tier:
\* TRUE when one of the three cases returns an error message.
TierConflict(tier, new_min, new_max) ==
    LET tier_min == tier.min_amount
        tier_max == tier.max_amount
    IN  \/ IF tier_max = None
              THEN new_min >= tier_min
              ELSE tier_min <= new_min /\ new_min <= Val(tier_max)
        \/ /\ new_max # None
           /\ IF tier_max = None
                 THEN Val(new_max) >= tier_min
                 ELSE tier_min <= Val(new_max) /\ Val(new_max) <= Val(tier_max)
        \/ IF new_max = None
              THEN tier_min >= new_min
              ELSE /\ tier_max # None
                   /\ new_min <= tier_min
                   /\ Val(new_max) >= Val(tier_max)

\* The tiers validate_tier_ranges reads: active, other than exclude_tier_id.
ExistingTiers(tiers, exclude_tier_id) ==
    {t \in tiers : t.is_active /\ (exclude_tier_id = None \/ t.tier_id # Val(exclude_tier_id))}

\* validate_tier_ranges: TRUE when an error message is returned.
validate_tier_ranges(tiers, new_min, new_max, exclude_tier_id) ==
    \E tier \in ExistingTiers(tiers, exclude_tier_id) : TierConflict(tier, new_min, new_max)

FindTier(tiers, tier_id) == {t \in tiers : t.tier_id = tier_id}

\* update_one({"tier_id": id}, {"$set": {"is_active": status}}).
SetActive(tiers, tier_id, status) ==
    {IF t.tier_id = tier_id THEN [t EXCEPT !.is_active = status] ELSE t : t \in tiers}

\* First part of create_tier: the amount validations (400 on failure).
CreateTierInvalid(min_amount, max_amount, shipping_charge) ==
    \/ min_amount < 0
    \/ max_amount # None /\ Val(max_amount) <= min_amount
    \/ shipping_charge < 0

\* create_tier decides to reject for overlap (only when is_active).
CreateTierOverlap(tiers, min_amount, max_amount, is_active) ==
    is_active /\ validate_tier_ranges(tiers, min_amount, max_amount, None)

NewTier(tier_id, min_amount, max_amount, shipping_charge, is_active) ==
    [tier_id |-> tier_id, min_amount |-> min_amount, max_amount |-> max_amount,
     shipping_charge |-> shipping_charge, is_active |-> is_active]

create_tier_as(min_amount, max_amount, shipping_charge, is_active) ==
    /\ Cardinality(shipping_tiers) < MaxTiers
    /\ IF \/ CreateTierInvalid(min_amount, max_amount, shipping_charge)
          \/ CreateTierOverlap(shipping_tiers, min_amount, max_amount, is_active)
          THEN /\ resp' = [op |-> "create_tier", status |-> 400]
               /\ UNCHANGED shipping_tiers
          ELSE \E tier_id \in TierIds :
                  /\ FindTier(shipping_tiers, tier_id) = {}
                  /\ shipping_tiers' = shipping_tiers \cup
                        {NewTier(tier_id, min_amount, max_amount, shipping_charge, is_active)}
                  /\ resp' = [op |-> "create_tier", status |-> 200]
    /\ UNCHANGED <<shop, req>>

create_tier ==
    \E min_amount \in TierMinVals, max_amount \in TierMaxVals,
       shipping_charge \in TierChargeVals, is_active \in BOOLEAN :
        create_tier_as(min_amount, max_amount, shipping_charge, is_active)

\* update_tier: new_min / new_max / is_active as computed from update_data
\* and the existing document.
UpdNewMin(existing, min_amount) ==
    IF min_amount # None THEN Val(min_amount) ELSE existing.min_amount

UpdNewMax(existing, max_amount) ==
    IF max_amount # None THEN max_amount ELSE existing.max_amount

UpdIsActive(existing, is_active) ==
    IF is_active # None THEN Val(is_active) ELSE existing.is_active

\* The condition guarding the overlap validation in update_tier.
UpdateTierValidates(existing, min_amount, max_amount, is_active) ==
    /\ UpdIsActive(existing, is_active)
    /\ (min_amount # None \/ max_amount # None)

\* The validations of update_tier without the comparison of max and min.
UpdateTierInvalid_NoMaxCheck(existing, min_amount, max_amount, shipping_charge) ==
    \/ min_amount # None /\ Val(min_amount) < 0
    \/ shipping_charge # None /\ Val(shipping_charge) < 0

UpdateTierInvalid(existing, min_amount, max_amount, shipping_charge) ==
    \/ min_amount # None /\ Val(min_amount) < 0
    \/ shipping_charge # None /\ Val(shipping_charge) < 0
    \/ LET new_min == UpdNewMin(existing, min_amount)
           new_max == UpdNewMax(existing, max_amount)
       IN  new_max # None /\ Val(new_max) <= new_min

UpdateTierOverlap(tiers, existing, min_amount, max_amount, is_active) ==
    /\ UpdateTierValidates(existing, min_amount, max_amount, is_active)
    /\ validate_tier_ranges(tiers, UpdNewMin(existing, min_amount),
                            UpdNewMax(existing, max_amount), Some(existing.tier_id))

\* The $set of update_tier applied to the stored document.
UpdatedTier(t, min_amount, max_amount, shipping_charge, is_active) ==
    [t EXCEPT !.min_amount = UpdNewMin(t, min_amount),
              !.max_amount = UpdNewMax(t, max_amount),
              !.shipping_charge = IF shipping_charge # None THEN Val(shipping_charge) ELSE @,
              !.is_active = UpdIsActive(t, is_active)]

update_tier_as(tier_id, min_amount, max_amount, shipping_charge, is_active) ==
    /\ IF FindTier(shipping_tiers, tier_id) = {}
          THEN /\ resp' = [op |-> "update_tier", status |-> 404]
               /\ UNCHANGED shipping_tiers
          ELSE LET existing == Val(FindTier(shipping_tiers, tier_id))
               IN  IF \/ UpdateTierInvalid(existing, min_amount, max_amount, shipping_charge)
                      \/ UpdateTierOverlap(shipping_tiers, existing, min_amount,
                                           max_amount, is_active)
                      THEN /\ resp' = [op |-> "update_tier", status |-> 400]
                           /\ UNCHANGED shipping_tiers
                      ELSE /\ shipping_tiers' =
                                 {IF t.tier_id = tier_id
                                     THEN UpdatedTier(t, min_amount, max_amount,
                                                      shipping_charge, is_active)
                                     ELSE t : t \in shipping_tiers}
                           /\ resp' = [op |-> "update_tier", status |-> 200]
    /\ UNCHANGED <<shop, req>>

update_tier ==
    \E tier_id \in TierIds, min_amount \in {None} \cup {Some(v) : v \in TierMinVals},
       max_amount \in TierMaxVals,
       shipping_charge \in {None} \cup {Some(v) : v \in TierChargeVals},
       is_active \in OptBool :
        update_tier_as(tier_id, min_amount, max_amount, shipping_charge, is_active)

delete_tier ==
    \E tier_id \in TierIds :
        /\ IF FindTier(shipping_tiers, tier_id) = {}
              THEN /\ resp' = [op |-> "delete_tier", status |-> 404]
                   /\ UNCHANGED shipping_tiers
              ELSE /\ shipping_tiers' = shipping_tiers \ FindTier(shipping_tiers, tier_id)
                   /\ resp' = [op |-> "delete_tier", status |-> 200]
        /\ UNCHANGED <<shop, req>>

\* toggle_tier activating without the overlap validation.
ToggleTierOverlap_Unchecked(tiers, tier) == FALSE

\* toggle_tier rejects an activation whose range overlaps an active tier.
ToggleTierOverlap(tiers, tier) ==
    /\ ~tier.is_active
    /\ validate_tier_ranges(tiers, tier.min_amount, tier.max_amount, Some(tier.tier_id))

toggle_tier_as(tier_id) ==
    /\ IF FindTier(shipping_tiers, tier_id) = {}
          THEN /\ resp' = [op |-> "toggle_tier", status |-> 404]
               /\ UNCHANGED shipping_tiers
          ELSE LET tier == Val(FindTier(shipping_tiers, tier_id))
               IN  IF ToggleTierOverlap(shipping_tiers, tier)
                      THEN /\ resp' = [op |-> "toggle_tier", status |-> 400]
                           /\ UNCHANGED shipping_tiers
                      ELSE /\ shipping_tiers' =
                                 SetActive(shipping_tiers, tier_id, ~tier.is_active)
                           /\ resp' = [op |-> "toggle_tier", status |-> 200]
    /\ UNCHANGED <<shop, req>>

toggle_tier ==
    \E tier_id \in TierIds :
        toggle_tier_as(tier_id)

\* The database before any tier, coupon or order exists.
InitTier ==
    /\ shipping_tiers = {}
    /\ coupons = {}
    /\ coupon_usage = <<>>
    /\ orders = <<>>
    /\ gst_settings = None
    /\ return_requests = {}
    /\ now = 0
    /\ req = NoReqs
    /\ resp = [op |-> "none", status |-> 0]

NextTier == create_tier \/ update_tier \/ delete_tier \/ toggle_tier

SpecTier == InitTier /\ [][NextTier]_vars

(***************************************************************************)
(* Properties of the tier table.                                           *)
(***************************************************************************)
\* Two closed ranges share a point (a missing max_amount is +infinity).
RangesOverlap(a, b) ==
    /\ (b.max_amount = None \/ a.min_amount <= Val(b.max_amount))
    /\ (a.max_amount = None \/ b.min_amount <= Val(a.max_amount))

NoActiveOverlap(tiers) ==
    \A a, b \in tiers :
        (a.tier_id # b.tier_id /\ a.is_active /\ b.is_active) => ~RangesOverlap(a, b)

\* C2: no two distinct active shipping tiers have overlapping ranges, in
\* every state reached by create_tier, update_tier, toggle_tier, delete_tier.
C2_ActiveTiersDisjoint == NoActiveOverlap(shipping_tiers)

\* C9: every step that turns a stored tier from inactive to active leaves it
\* overlapping no other active tier (the activation was validated, and
\* rejected on overlap), for toggle_tier and for update_tier alike.
C9_ActivationValidated ==
    [][\A t \in shipping_tiers, u \in shipping_tiers' :
          (t.tier_id = u.tier_id /\ ~t.is_active /\ u.is_active)
              => \A o \in shipping_tiers' :
                    (o.tier_id # u.tier_id /\ o.is_active) => ~RangesOverlap(u, o)]_vars

(***************************************************************************)
(* The tier handlers on a small menu of requests: the ranges 0+, 0-1 and   *)
(* 2+, the amounts the validations refuse, both charges.                   *)
(***************************************************************************)
EditMinVals == {-1, 0, 2}

EditMaxVals == {None, Some(0), Some(1)}

EditChargeVals == {-1, 5}

edit_create_tier ==
    \E min_amount \in EditMinVals, max_amount \in EditMaxVals,
       shipping_charge \in EditChargeVals, is_active \in BOOLEAN :
        create_tier_as(min_amount, max_amount, shipping_charge, is_active)

edit_update_tier ==
    \E tier_id \in TierIds, min_amount \in {None} \cup {Some(v) : v \in EditMinVals},
       max_amount \in EditMaxVals,
       shipping_charge \in {None} \cup {Some(v) : v \in EditChargeVals},
       is_active \in OptBool :
        update_tier_as(tier_id, min_amount, max_amount, shipping_charge, is_active)

NextTierEdit == edit_create_tier \/ edit_update_tier \/ toggle_tier \/ delete_tier

SpecTierEdit == InitTier /\ [][NextTierEdit]_vars

\* The amounts of a create or update request pass the amount validations.
ValidAmounts(min_amount, max_amount, shipping_charge) ==
    /\ min_amount >= 0
    /\ max_amount = None \/ Val(max_amount) > min_amount
    /\ shipping_charge >= 0

\* The active tiers other than t whose range shares a point with t's.
ActiveOverlapping(tiers, t) ==
    {o \in tiers : o.tier_id # t.tier_id /\ o.is_active /\ RangesOverlap(t, o)}

TierRejected ==
    /\ resp'.op \in {"create_tier", "update_tier", "toggle_tier"}
    /\ resp'.status \in {400, 404}

WellFormedRanges ==
    {rg \in [min_amount : 0..MaxAmt, max_amount : TierMaxVals] :
        rg.max_amount = None \/ Val(rg.max_amount) > rg.min_amount}

\* A slot of the table: no tier, or a tier with a range and a status.
TierSlots == {None} \cup {Some(<<rg, a>>) : rg \in WellFormedRanges, a \in BOOLEAN}

TierTable(slots) ==
    {NewTier(i, Val(slots[i])[1].min_amount, Val(slots[i])[1].max_amount,
             0, Val(slots[i])[2]) : i \in {j \in TierIds : slots[j] # None}}

ExcludeIds == {None} \cup {Some(i) : i \in TierIds}

InitValidate ==
    /\ \E slots \in [TierIds -> TierSlots] : shipping_tiers = TierTable(slots)
    /\ coupons = {}
    /\ coupon_usage = <<>>
    /\ orders = <<>>
    /\ gst_settings = None
    /\ return_requests = {}
    /\ now = 0
    /\ req = NoReqs
    /\ resp = [op |-> "none", status |-> 0]

\* One call validate_tier_ranges(new_tier, exclude_tier_id); the response
\* records the arguments and whether an error message came back.
call_validate_tier_ranges ==
    \E rg \in WellFormedRanges, exclude_tier_id \in ExcludeIds :
        /\ resp' = [op |-> "validate_tier_ranges",
                    new_tier |-> rg,
                    exclude_tier_id |-> exclude_tier_id,
                    error |-> validate_tier_ranges(shipping_tiers, rg.min_amount,
                                                   rg.max_amount, exclude_tier_id)]
        /\ UNCHANGED <<shipping_tiers, shop, req>>

NextValidate == call_validate_tier_ranges

SpecValidate == InitValidate /\ [][NextValidate]_vars

\* The active tiers, other than the excluded one, whose range shares a
\* point with the candidate range.
OverlappingActive(tiers, rg, exclude_tier_id) ==
    {t \in tiers : /\ t.is_active
                   /\ exclude_tier_id # Some(t.tier_id)
                   /\ RangesOverlap(rg, t)}

Reqs == 1..MaxReq

RaceMinVals == {0, 1}

RaceMaxVals == {None, Some(2)}

RaceCharge == 5

Idle == [pc |-> "idle"]

\* create_tier up to and including the read of validate_tier_ranges.
create_tier_validate(r) ==
    \E min_amount \in RaceMinVals, max_amount \in RaceMaxVals, is_active \in BOOLEAN :
        /\ req[r].pc = "idle"
        /\ Cardinality(shipping_tiers)
             + Cardinality({q \in Reqs : req[q].pc = "create_insert"}) < MaxTiers
        /\ IF \/ CreateTierInvalid(min_amount, max_amount, RaceCharge)
              \/ CreateTierOverlap(shipping_tiers, min_amount, max_amount, is_active)
              THEN /\ resp' = [op |-> "create_tier", status |-> 400]
                   /\ UNCHANGED req
              ELSE /\ req' = [req EXCEPT ![r] =
                                [pc |-> "create_insert", min_amount |-> min_amount,
                                 max_amount |-> max_amount, is_active |-> is_active]]
                   /\ UNCHANGED resp
        /\ UNCHANGED <<shipping_tiers, shop>>

\* create_tier: insert_one of the validated tier.
create_tier_insert(r) ==
    /\ req[r].pc = "create_insert"
    /\ \E tier_id \in TierIds :
          /\ FindTier(shipping_tiers, tier_id) = {}
          /\ shipping_tiers' = shipping_tiers \cup
                {NewTier(tier_id, req[r].min_amount, req[r].max_amount, RaceCharge,
                         req[r].is_active)}
    /\ req' = [req EXCEPT ![r] = Idle]
    /\ resp' = [op |-> "create_tier", status |-> 200]
    /\ UNCHANGED shop

\* toggle_tier: find_one of the tier; a deactivation goes straight to the
\* update, an activation to the read of validate_tier_ranges.
toggle_tier_find(r) ==
    \E tier_id \in TierIds :
        /\ req[r].pc = "idle"
        /\ IF FindTier(shipping_tiers, tier_id) = {}
              THEN /\ resp' = [op |-> "toggle_tier", status |-> 404]
                   /\ UNCHANGED req
              ELSE LET tier == Val(FindTier(shipping_tiers, tier_id))
                   IN  /\ req' = [req EXCEPT ![r] =
                                    [pc |-> IF tier.is_active THEN "toggle_update"
                                                              ELSE "toggle_validate",
                                     tier |-> tier]]
                       /\ UNCHANGED resp
        /\ UNCHANGED <<shipping_tiers, shop>>

\* toggle_tier: the read of validate_tier_ranges for the tier document read
\* earlier.
toggle_tier_validate(r) ==
    /\ req[r].pc = "toggle_validate"
    /\ IF ToggleTierOverlap(shipping_tiers, req[r].tier)
          THEN /\ resp' = [op |-> "toggle_tier", status |-> 400]
               /\ req' = [req EXCEPT ![r] = Idle]
          ELSE /\ req' = [req EXCEPT ![r].pc = "toggle_update"]
               /\ UNCHANGED resp
    /\ UNCHANGED <<shipping_tiers, shop>>

\* toggle_tier: update_one setting is_active to the status computed from the
\* document read earlier.
toggle_tier_update(r) ==
    /\ req[r].pc = "toggle_update"
    /\ shipping_tiers' =
          SetActive(shipping_tiers, req[r].tier.tier_id, ~req[r].tier.is_active)
    /\ req' = [req EXCEPT ![r] = Idle]
    /\ resp' = [op |-> "toggle_tier", status |-> 200]
    /\ UNCHANGED shop

NextTierRace ==
    \E r \in Reqs :
        \/ create_tier_validate(r)
        \/ create_tier_insert(r)
        \/ toggle_tier_find(r)
        \/ toggle_tier_validate(r)
        \/ toggle_tier_update(r)

SpecTierRace == InitTier /\ [][NextTierRace]_vars

\* C10: concurrent create / activate requests never leave two overlapping
\* active tiers: the non-overlap invariant holds under every interleaving of
\* the validation read and the write.
C10_ConcurrentTiersDisjoint == NoActiveOverlap(shipping_tiers)

(***************************************************************************)
(* Coupons: coupon_routes.py                                               *)
(***************************************************************************)
Min(a, b) == IF a <= b THEN a ELSE b

\* round(num / den, 2) on an amount in hundredths: the nearest integer,
\* a tie going to the even one.
Round2(num, den) ==
    LET q == num \div den
        r == num % den
    IN  IF 2 * r < den THEN q
        ELSE IF 2 * r > den THEN q + 1
        ELSE IF q % 2 = 0 THEN q ELSE q + 1

\* str.upper() on the codes a client sends.
Upper(code) ==
    CASE code = "festive10" -> "FESTIVE10"
      [] code = "flat200" -> "FLAT200"
      [] code = "nope" -> "NOPE"
      [] OTHER -> code

\* find_one: None on an empty result, else one of the matching documents.
FindOne(docs) == IF docs = {} THEN {None} ELSE {Some(doc) : doc \in docs}

\* calculate_discount with the fixed amount taken whole.
calculate_discount_NoMin(coupon, subtotal) ==
    IF coupon.coupon_type = "percentage"
       THEN LET max_discount == coupon.max_discount
            IN  IF /\ max_discount # None
                   /\ Val(max_discount) # 0
                   /\ subtotal * coupon.discount_value > Val(max_discount) * 100
                   THEN Val(max_discount)
                   ELSE Round2(subtotal * coupon.discount_value, 100)
       ELSE coupon.discount_value

calculate_discount(coupon, subtotal) ==
    IF coupon.coupon_type = "percentage"
       THEN LET max_discount == coupon.max_discount
            IN  IF /\ max_discount # None
                   /\ Val(max_discount) # 0
                   /\ subtotal * coupon.discount_value > Val(max_discount) * 100
                   THEN Val(max_discount)
                   ELSE Round2(subtotal * coupon.discount_value, 100)
       ELSE Min(coupon.discount_value, subtotal)

\* The coupon_usage.find_one of the one-time-per-user check.
ExistingUsage(usage, coupon_id, user_id) ==
    \E i \in 1..Len(usage) : usage[i].coupon_id = coupon_id /\ usage[i].user_id = user_id

\* check_coupon_eligibility: the error message, "" when eligible.
check_coupon_eligibility(coupon, user_id, subtotal, usage, time) ==
    IF ~coupon.is_active THEN "Coupon is not active"
    ELSE IF coupon.expires_at # None /\ time > Val(coupon.expires_at)
            THEN "Coupon has expired"
    ELSE IF /\ coupon.usage_limit # None
            /\ Val(coupon.usage_limit) # 0
            /\ coupon.used_count >= Val(coupon.usage_limit)
            THEN "Coupon usage limit reached"
    ELSE IF coupon.one_time_per_user /\ ExistingUsage(usage, coupon.coupon_id, user_id)
            THEN "Already used this coupon"
    ELSE IF subtotal < coupon.min_order_value
            THEN "Minimum order required"
    ELSE ""

\* to_list(50): the cursor is cut after this many documents.
ToListLength == 50

\* The first ToListLength documents of a cursor, which returns them in
\* insertion order: by coupon_id.
Listed(docs) ==
    {c \in docs : Cardinality({o \in docs : o.coupon_id < c.coupon_id}) < ToListLength}

\* The find of get_best_auto_coupon.
AutoCandidates(cs, subtotal) ==
    Listed({c \in cs : c.is_active /\ c.auto_apply /\ c.min_order_value <= subtotal})

\* The next document of the cursor.
FirstCandidate(cands) == CHOOSE c \in cands : \A o \in cands : c.coupon_id <= o.coupon_id

\* The loop of get_best_auto_coupon over the candidates left, with
\* best_coupon / best_discount so far.
RECURSIVE BestLoop(_, _, _, _, _, _)
BestLoop(cands, user_id, subtotal, usage, time, best) ==
    IF cands = {}
       THEN best
       ELSE LET coupon == FirstCandidate(cands)
                discount == calculate_discount(coupon, subtotal)
                eligible == check_coupon_eligibility(coupon, user_id, subtotal, usage, time) = ""
            IN  BestLoop(cands \ {coupon}, user_id, subtotal, usage, time,
                         IF eligible /\ discount > best.discount_amount
                            THEN [coupon |-> Some(coupon), discount_amount |-> discount]
                            ELSE best)

\* get_best_auto_coupon: the coupon of the response (None for null) and
\* its discount_amount.
get_best_auto_coupon(cs, user_id, subtotal, usage, time) ==
    IF subtotal <= 0
       THEN [coupon |-> None, discount_amount |-> 0]
       ELSE BestLoop(AutoCandidates(cs, subtotal), user_id, subtotal, usage, time,
                     [coupon |-> None, discount_amount |-> 0])

(***************************************************************************)
(* Order creation: order_routes.py                                         *)
(***************************************************************************)
Users == {"u1", "u2"}

\* db.pincodes: one seeded pincode and one added by an admin without COD.
Pincodes ==
    {[pincode |-> "400001", cod_available |-> TRUE],
     [pincode |-> "110099", cod_available |-> FALSE]}

PincodeInputs == {"400001", "110099", "000000"}

PaymentMethods == {"cod", "razorpay"}

\* OrderCreate.items, each item by its subtotal in hundredths.
Carts == {<<14999>>, <<60000>>, <<50000, 50000>>}

\* OrderCreate.coupon_code / coupon_discount as a client may send them.
CouponInputs ==
    {[coupon_code |-> None, coupon_discount |-> 0],
     [coupon_code |-> None, coupon_discount |-> 10000],
     [coupon_code |-> None, coupon_discount |-> -10000],
     [coupon_code |-> Some("festive10"), coupon_discount |-> 10000],
     [coupon_code |-> Some("FLAT200"), coupon_discount |-> 10000],
     [coupon_code |-> Some("FLAT200"), coupon_discount |-> 0],
     [coupon_code |-> Some("nope"), coupon_discount |-> 10000]}

GstDefault == 18

GstInputs == {5}

RECURSIVE SumItems(_)
SumItems(items) == IF items = <<>> THEN 0 ELSE Head(items) + SumItems(Tail(items))

\* The pincode checks that open create_order (400 on failure).
PincodeRejected(pincode, payment_method) ==
    LET pincode_data == {p \in Pincodes : p.pincode = pincode}
    IN  \/ pincode_data = {}
        \/ payment_method = "cod" /\ ~Val(pincode_data).cod_available

\* Python truthiness of an Optional[str].
CodeGiven(coupon_code) == coupon_code # None /\ Val(coupon_code) # ""

\* create_order re-validates only under this condition.
Revalidates(coupon_code, coupon_discount) == CodeGiven(coupon_code) /\ coupon_discount > 0

CouponsByCode(cs, coupon_code) == {c \in cs : c.code = Upper(Val(coupon_code))}

\* Step 2 of create_order once the coupon document has been looked up:
\* the coupon_code and coupon_discount the order is priced with.
ResolveCoupon(found, user_id, subtotal, usage, time, coupon_code, coupon_discount) ==
    IF ~Revalidates(coupon_code, coupon_discount)
       THEN [coupon_code |-> coupon_code, coupon_discount |-> coupon_discount]
    ELSE IF found = None \/ ~Val(found).is_active
       THEN [coupon_code |-> None, coupon_discount |-> 0]
    ELSE IF check_coupon_eligibility(Val(found), user_id, subtotal, usage, time) # ""
       THEN [coupon_code |-> None, coupon_discount |-> 0]
    ELSE [coupon_code |-> coupon_code,
          coupon_discount |-> calculate_discount(Val(found), subtotal)]

DiscountedSubtotal(subtotal, coupon_discount) ==
    IF subtotal - coupon_discount < 0 THEN 0 ELSE subtotal - coupon_discount

GstPercentage(settings) == IF settings # None THEN Val(settings) ELSE GstDefault

GstAmount(discounted_subtotal, gst_percentage) ==
    Round2(discounted_subtotal * gst_percentage, 100)

\* GST taken on the subtotal before the discount.
OrderGst_OnSubtotal(subtotal, coupon_discount, gst_percentage) ==
    GstAmount(subtotal, gst_percentage)

\* Step 3 of create_order: GST of the order.
OrderGst(subtotal, coupon_discount, gst_percentage) ==
    GstAmount(DiscountedSubtotal(subtotal, coupon_discount), gst_percentage)

\* The query with max_amount compared by $gt instead of $gte.
MatchingTiers_ExclusiveMax(tiers, amount) ==
    {t \in tiers : /\ t.is_active
                   /\ t.min_amount <= amount
                   /\ (t.max_amount = None \/ Val(t.max_amount) > amount)}

\* The query of the tier lookup.
MatchingTiers(tiers, amount) ==
    {t \in tiers : /\ t.is_active
                   /\ t.min_amount <= amount
                   /\ (t.max_amount = None \/ Val(t.max_amount) >= amount)}

\* The tier looked up on the subtotal before the discount.
OrderTiers_OnSubtotal(tiers, subtotal, coupon_discount) ==
    MatchingTiers(tiers, subtotal)

\* Step 4 of create_order: the tiers its find_one may return.
OrderTiers(tiers, subtotal, coupon_discount) ==
    MatchingTiers(tiers, DiscountedSubtotal(subtotal, coupon_discount))

ShippingCharge(shipping_tier) ==
    IF shipping_tier # None THEN Val(shipping_tier).shipping_charge ELSE 0

\* A total that leaves the shipping charge out.
OrderTotal_NoShipping(discounted_subtotal, gst_amount, shipping_charge) ==
    discounted_subtotal + gst_amount

\* Step 5 of create_order.
OrderTotal(discounted_subtotal, gst_amount, shipping_charge) ==
    discounted_subtotal + gst_amount + shipping_charge

\* The order document, by the fields that carry the pricing and the
\* payment, order and return statuses.
OrderDoc(order_id, user_id, subtotal, applied, gst_percentage, shipping_tier, payment_method) ==
    LET discounted_subtotal == DiscountedSubtotal(subtotal, applied.coupon_discount)
        gst_amount == OrderGst(subtotal, applied.coupon_discount, gst_percentage)
        shipping_charge == ShippingCharge(shipping_tier)
    IN  [order_id |-> order_id,
         user_id |-> user_id,
         subtotal |-> subtotal,
         discounted_subtotal |-> discounted_subtotal,
         gst_amount |-> gst_amount,
         gst_percentage |-> gst_percentage,
         shipping_charge |-> shipping_charge,
         coupon_code |-> applied.coupon_code,
         coupon_discount |-> applied.coupon_discount,
         coupon_applied_type |-> "manual",
         total |-> OrderTotal(discounted_subtotal, gst_amount, shipping_charge),
         payment_status |-> "pending",
         order_status |-> IF payment_method = "cod" THEN "confirmed" ELSE "pending",
         return_status |-> "none"]

\* create_order records a usage under this condition.
RecordsUsage(order) == CodeGiven(order.coupon_code) /\ order.coupon_discount > 0

UsageDoc(coupon, order) ==
    [coupon_id |-> coupon.coupon_id,
     coupon_code |-> Upper(Val(order.coupon_code)),
     user_id |-> order.user_id,
     order_id |-> order.order_id,
     discount_amount |-> order.coupon_discount,
     order_subtotal |-> order.subtotal,
     applied_type |-> order.coupon_applied_type]

\* An update that loses the increment.
IncUsed_NoIncrement(cs, coupon_id) == cs

\* update_one({"coupon_id": id}, {"$inc": {"used_count": 1}}).
IncUsed(cs, coupon_id) ==
    {IF c.coupon_id = coupon_id THEN [c EXCEPT !.used_count = @ + 1] ELSE c : c \in cs}

\* create_order for one request, run without interruption.  The stock
\* update of the products that ends the handler touches no pricing, coupon
\* or tier data and is left out.
\* What create_order writes to the log for the tier it looked up: the handler
\* has no logger call, so nothing, whether or not a tier was found.
CreateOrderLog(shipping_tier) == {}

create_order_as(user_id, pincode, payment_method, items, input) ==
    /\ Len(orders) < MaxOrders
    /\ IF PincodeRejected(pincode, payment_method)
          THEN /\ resp' = [op |-> "create_order", status |-> 400]
               /\ UNCHANGED <<orders, coupon_usage, coupons>>
          ELSE LET subtotal == SumItems(items)
                   coupon_discount == IF input.coupon_discount # 0
                                         THEN input.coupon_discount ELSE 0
               IN  \E found \in FindOne(IF Revalidates(input.coupon_code, coupon_discount)
                                           THEN CouponsByCode(coupons, input.coupon_code)
                                           ELSE {}) :
                     LET applied == ResolveCoupon(found, user_id, subtotal, coupon_usage,
                                                  now, input.coupon_code, coupon_discount)
                     IN  \E shipping_tier \in
                               FindOne(OrderTiers(shipping_tiers, subtotal,
                                                  applied.coupon_discount)) :
                           LET order == OrderDoc(Len(orders) + 1, user_id, subtotal, applied,
                                                 GstPercentage(gst_settings), shipping_tier,
                                                 payment_method)
                           IN  /\ orders' = Append(orders, order)
                               /\ IF RecordsUsage(order)
                                     THEN \E coupon \in FindOne(CouponsByCode(coupons,
                                                                    order.coupon_code)) :
                                            IF coupon # None
                                               THEN /\ coupon_usage' =
                                                         Append(coupon_usage,
                                                                UsageDoc(Val(coupon), order))
                                                    /\ coupons' =
                                                         IncUsed(coupons, Val(coupon).coupon_id)
                                               ELSE UNCHANGED <<coupon_usage, coupons>>
                                     ELSE UNCHANGED <<coupon_usage, coupons>>
                               /\ resp' = [op |-> "create_order", status |-> 200,
                                           logged |-> CreateOrderLog(shipping_tier)]
    /\ UNCHANGED <<shipping_tiers, gst_settings, return_requests, now, req>>

create_order ==
    \E user_id \in Users, pincode \in PincodeInputs, payment_method \in PaymentMethods,
       items \in Carts, input \in CouponInputs :
        create_order_as(user_id, pincode, payment_method, items, input)

\* update_gst_settings (admin_routes.py): upsert of the single record.
update_gst_settings ==
    \E gst_percentage \in GstInputs :
        /\ gst_settings' = Some(gst_percentage)
        /\ resp' = [op |-> "update_gst_settings", status |-> 200]
        /\ UNCHANGED <<shipping_tiers, coupons, coupon_usage, orders, return_requests, now,
                       req>>

\* A shop an admin has set up: the three tiers and two coupons of the
\* tests, no GST record yet.
SeedTiers ==
    {NewTier(1, 0, Some(49900), 8000, TRUE),
     NewTier(2, 50000, Some(99900), 5000, TRUE),
     NewTier(3, 100000, None, 0, TRUE)}

SeedCoupons ==
    {[coupon_id |-> 1, code |-> "FESTIVE10", coupon_type |-> "percentage",
      discount_value |-> 10, min_order_value |-> 50000, max_discount |-> Some(20000),
      usage_limit |-> None, used_count |-> 0, one_time_per_user |-> TRUE,
      auto_apply |-> TRUE, is_active |-> TRUE, expires_at |-> None],
     [coupon_id |-> 2, code |-> "FLAT200", coupon_type |-> "fixed",
      discount_value |-> 20000, min_order_value |-> 0, max_discount |-> None,
      usage_limit |-> Some(1), used_count |-> 0, one_time_per_user |-> FALSE,
      auto_apply |-> FALSE, is_active |-> TRUE, expires_at |-> None]}

Init ==
    /\ shipping_tiers = SeedTiers
    /\ coupons = SeedCoupons
    /\ coupon_usage = <<>>
    /\ orders = <<>>
    /\ gst_settings = None
    /\ return_requests = {}
    /\ now = 0
    /\ req = NoReqs
    /\ resp = [op |-> "none", status |-> 0]

Next == create_order \/ update_gst_settings \/ toggle_tier

Spec == Init /\ [][Next]_vars

(***************************************************************************)
(* The public tier lookup next to order creation.                          *)
(***************************************************************************)
\* Subtotals a client asks about: the boundaries of the seeded tiers, a
\* value in the gap between two tiers, and a negative one.
ShippingSubtotals == {-100, 0, 49900, 49950, 50000, 99900, 100000}

\* GET /shipping-tiers/calculate.
\* logger.warning of calculate_shipping when find_one returns no tier.
ShippingLog(tier) == IF tier = None THEN {"No shipping tier found"} ELSE {}

calculate_shipping ==
    \E subtotal \in ShippingSubtotals :
        /\ IF subtotal < 0
              THEN resp' = [op |-> "calculate_shipping", status |-> 400]
              ELSE \E tier \in FindOne(MatchingTiers(shipping_tiers, subtotal)) :
                      resp' = [op |-> "calculate_shipping", status |-> 200,
                               subtotal |-> subtotal,
                               shipping_charge |-> IF tier = None THEN 0
                                                   ELSE Val(tier).shipping_charge,
                               tier_matched |-> tier # None,
                               logged |-> ShippingLog(tier)]
        /\ UNCHANGED <<shipping_tiers, shop, req>>

NextShipping == calculate_shipping \/ create_order \/ toggle_tier

SpecShipping == Init /\ [][NextShipping]_vars

\* The active tiers whose closed range holds the amount.
Covering(tiers, amount) ==
    {t \in tiers : /\ t.is_active
                   /\ t.min_amount <= amount
                   /\ (t.max_amount # None => amount <= Val(t.max_amount))}

CoveringCharges(tiers, amount) == {t.shipping_charge : t \in Covering(tiers, amount)}

\* What the seeded tiers 0-499, 500-999, 1000+ charge at their boundaries.
BoundaryCharge(amount) ==
    CASE amount = 49900 -> {8000}
      [] amount = 50000 -> {5000}
      [] amount = 99900 -> {5000}
      [] amount = 100000 -> {0}
      [] OTHER -> {0, 5000, 8000}

\* C12: calculate_shipping reports a match exactly when an active tier has
\* min_amount <= amount and max_amount absent or amount <= max_amount, and
\* then charges what such a tier charges; the tier create_order charges for
\* is such a tier too.  With the tiers 0-499, 500-999, 1000+ active the
\* charge is 80 at 499, 50 at 500 and at 999, 0 at 1000: an amount on a
\* boundary belongs to the tier that names it.
C12_LookupBoundaries ==
    [][/\ (resp'.op = "calculate_shipping" /\ resp'.status = 200)
            => /\ resp'.tier_matched <=> Covering(shipping_tiers, resp'.subtotal) # {}
               /\ resp'.tier_matched
                     => resp'.shipping_charge \in CoveringCharges(shipping_tiers, resp'.subtotal)
               /\ shipping_tiers = SeedTiers
                     => resp'.shipping_charge \in BoundaryCharge(resp'.subtotal)
       /\ Len(orders') = Len(orders) + 1
            => LET o == orders'[Len(orders')]
               IN  /\ Covering(shipping_tiers, o.discounted_subtotal) # {}
                        => o.shipping_charge
                              \in CoveringCharges(shipping_tiers, o.discounted_subtotal)
                   /\ shipping_tiers = SeedTiers
                        => o.shipping_charge \in BoundaryCharge(o.discounted_subtotal)]_vars

\* A lookup at 500 answered with the charge of the tier 500-999, all three
\* tiers active, after an order of exactly 1000 was charged nothing.
C12_Witness ==
    /\ shipping_tiers = SeedTiers
    /\ resp.op = "calculate_shipping"
    /\ resp.status = 200
    /\ resp.subtotal = 50000
    /\ resp.tier_matched
    /\ resp.shipping_charge = 5000
    /\ \E i \in 1..Len(orders) :
          orders[i].discounted_subtotal = 100000 /\ orders[i].shipping_charge = 0

(***************************************************************************)
(* Concurrent create_order requests: one step per await on the database.   *)
(***************************************************************************)
RaceCarts == {<<60000>>}

RaceCouponInputs ==
    {[coupon_code |-> Some("festive10"), coupon_discount |-> 10000],
     [coupon_code |-> Some("FLAT200"), coupon_discount |-> 10000],
     [coupon_code |-> Some("nope"), coupon_discount |-> 10000]}

\* The create_order requests in flight.
InFlight ==
    {q \in Reqs : req[q].pc \in {"find_coupon", "eligibility", "gst_settings", "shipping",
                                  "insert", "find_coupon2", "insert_usage", "inc_used"}}

\* create_order up to the pincode check and the subtotal; each request
\* creates one order, MaxReq of them in all.
co_start_as(r, user_id, pincode, payment_method, items, input) ==
    /\ req[r].pc = "idle"
    /\ Len(orders) + Cardinality(InFlight) < MaxReq
    /\ IF PincodeRejected(pincode, payment_method)
          THEN /\ resp' = [op |-> "create_order", status |-> 400]
               /\ UNCHANGED req
          ELSE LET coupon_discount == IF input.coupon_discount # 0
                                         THEN input.coupon_discount ELSE 0
               IN  /\ req' = [req EXCEPT ![r] =
                                [pc |-> IF Revalidates(input.coupon_code, coupon_discount)
                                           THEN "find_coupon" ELSE "gst_settings",
                                 user_id |-> user_id,
                                 payment_method |-> payment_method,
                                 subtotal |-> SumItems(items),
                                 coupon_code |-> input.coupon_code,
                                 coupon_discount |-> coupon_discount]]
                   /\ UNCHANGED resp
    /\ UNCHANGED <<shipping_tiers, shop>>

co_start(r) ==
    \E user_id \in Users, pincode \in PincodeInputs, payment_method \in PaymentMethods,
       items \in RaceCarts, input \in RaceCouponInputs :
        co_start_as(r, user_id, pincode, payment_method, items, input)

\* db.coupons.find_one by code; an unknown or inactive coupon is dropped.
co_find_coupon(r) ==
    /\ req[r].pc = "find_coupon"
    /\ \E found \in FindOne(CouponsByCode(coupons, req[r].coupon_code)) :
          IF found = None \/ ~Val(found).is_active
             THEN req' = [req EXCEPT ![r].pc = "gst_settings",
                                     ![r].coupon_code = None,
                                     ![r].coupon_discount = 0]
             ELSE req' = [req EXCEPT ![r] =
                            [pc |-> "eligibility", user_id |-> req[r].user_id,
                             payment_method |-> req[r].payment_method,
                             subtotal |-> req[r].subtotal,
                             coupon_code |-> req[r].coupon_code,
                             coupon_discount |-> req[r].coupon_discount,
                             coupon |-> Val(found)]]
    /\ UNCHANGED <<shipping_tiers, shop, resp>>

\* check_coupon_eligibility on the coupon document read before (its
\* used_count is the one read then) and the usage ledger as it is now.
co_eligibility(r) ==
    /\ req[r].pc = "eligibility"
    /\ LET applied == ResolveCoupon(Some(req[r].coupon), req[r].user_id, req[r].subtotal,
                                    coupon_usage, now, req[r].coupon_code,
                                    req[r].coupon_discount)
       IN  req' = [req EXCEPT ![r] =
                     [pc |-> "gst_settings", user_id |-> req[r].user_id,
                      payment_method |-> req[r].payment_method,
                      subtotal |-> req[r].subtotal,
                      coupon_code |-> applied.coupon_code,
                      coupon_discount |-> applied.coupon_discount]]
    /\ UNCHANGED <<shipping_tiers, shop, resp>>

\* db.gst_settings.find_one.
co_gst_settings(r) ==
    /\ req[r].pc = "gst_settings"
    /\ req' = [req EXCEPT ![r] =
                 [pc |-> "shipping", user_id |-> req[r].user_id,
                  payment_method |-> req[r].payment_method,
                  subtotal |-> req[r].subtotal,
                  coupon_code |-> req[r].coupon_code,
                  coupon_discount |-> req[r].coupon_discount,
                  gst_percentage |-> GstPercentage(gst_settings)]]
    /\ UNCHANGED <<shipping_tiers, shop, resp>>

\* db.shipping_tiers.find_one on the discounted subtotal.
co_shipping(r) ==
    /\ req[r].pc = "shipping"
    /\ \E shipping_tier \in FindOne(OrderTiers(shipping_tiers, req[r].subtotal,
                                                req[r].coupon_discount)) :
          req' = [req EXCEPT ![r] =
                    [pc |-> "insert", user_id |-> req[r].user_id,
                     payment_method |-> req[r].payment_method,
                     subtotal |-> req[r].subtotal,
                     coupon_code |-> req[r].coupon_code,
                     coupon_discount |-> req[r].coupon_discount,
                     gst_percentage |-> req[r].gst_percentage,
                     shipping_tier |-> shipping_tier]]
    /\ UNCHANGED <<shipping_tiers, shop, resp>>

\* db.orders.insert_one; without a coupon to record the request ends here.
co_insert(r) ==
    /\ req[r].pc = "insert"
    /\ LET order == OrderDoc(Len(orders) + 1, req[r].user_id, req[r].subtotal,
                             [coupon_code |-> req[r].coupon_code,
                              coupon_discount |-> req[r].coupon_discount],
                             req[r].gst_percentage, req[r].shipping_tier,
                             req[r].payment_method)
       IN  /\ orders' = Append(orders, order)
           /\ IF RecordsUsage(order)
                 THEN /\ req' = [req EXCEPT ![r] = [pc |-> "find_coupon2", order |-> order]]
                      /\ UNCHANGED resp
                 ELSE /\ req' = [req EXCEPT ![r] = Idle]
                      /\ resp' = [op |-> "create_order", status |-> 200]
    /\ UNCHANGED <<shipping_tiers, coupons, coupon_usage, gst_settings, return_requests, now>>

\* The second db.coupons.find_one, for the usage record.
co_find_coupon2(r) ==
    /\ req[r].pc = "find_coupon2"
    /\ \E coupon \in FindOne(CouponsByCode(coupons, req[r].order.coupon_code)) :
          IF coupon = None
             THEN /\ req' = [req EXCEPT ![r] = Idle]
                  /\ resp' = [op |-> "create_order", status |-> 200]
             ELSE /\ req' = [req EXCEPT ![r] =
                               [pc |-> "insert_usage", order |-> req[r].order,
                                coupon |-> Val(coupon)]]
                  /\ UNCHANGED resp
    /\ UNCHANGED <<shipping_tiers, shop>>

\* db.coupon_usage.insert_one.
co_insert_usage(r) ==
    /\ req[r].pc = "insert_usage"
    /\ coupon_usage' = Append(coupon_usage, UsageDoc(req[r].coupon, req[r].order))
    /\ req' = [req EXCEPT ![r] = [pc |-> "inc_used", order |-> req[r].order,
                                  coupon_id |-> req[r].coupon.coupon_id]]
    /\ UNCHANGED <<shipping_tiers, coupons, orders, gst_settings, return_requests, now, resp>>

\* db.coupons.update_one with $inc; the order is returned.
co_inc_used(r) ==
    /\ req[r].pc = "inc_used"
    /\ coupons' = IncUsed(coupons, req[r].coupon_id)
    /\ req' = [req EXCEPT ![r] = Idle]
    /\ resp' = [op |-> "create_order", status |-> 200]
    /\ UNCHANGED <<shipping_tiers, coupon_usage, orders, gst_settings, return_requests, now>>

NextRace ==
    \E r \in Reqs :
        \/ co_start(r)
        \/ co_find_coupon(r)
        \/ co_eligibility(r)
        \/ co_gst_settings(r)
        \/ co_shipping(r)
        \/ co_insert(r)
        \/ co_find_coupon2(r)
        \/ co_insert_usage(r)
        \/ co_inc_used(r)

SpecRace == Init /\ [][NextRace]_vars

(***************************************************************************)
(* create_order requests next to an admin deleting coupons.                *)
(***************************************************************************)
CouponIds == {c.coupon_id : c \in SeedCoupons}

\* delete_coupon up to delete_one: 404 when nothing was deleted.
dc_delete_one(r) ==
    \E coupon_id \in CouponIds :
        /\ req[r].pc = "idle"
        /\ IF \E c \in coupons : c.coupon_id = coupon_id
              THEN /\ coupons' = {c \in coupons : c.coupon_id # coupon_id}
                   /\ req' = [req EXCEPT ![r] = [pc |-> "delete_usage",
                                                 coupon_id |-> coupon_id]]
                   /\ UNCHANGED resp
              ELSE /\ resp' = [op |-> "delete_coupon", status |-> 404]
                   /\ UNCHANGED <<coupons, req>>
        /\ UNCHANGED <<shipping_tiers, coupon_usage, orders, gst_settings, return_requests, now>>

\* db.coupon_usage.delete_many of the deleted coupon.
dc_delete_usage(r) ==
    /\ req[r].pc = "delete_usage"
    /\ coupon_usage' = SelectSeq(coupon_usage, LAMBDA u : u.coupon_id # req[r].coupon_id)
    /\ req' = [req EXCEPT ![r] = Idle]
    /\ resp' = [op |-> "delete_coupon", status |-> 200]
    /\ UNCHANGED <<shipping_tiers, coupons, orders, gst_settings, return_requests, now>>

NextRaceAdmin ==
    \/ NextRace
    \/ \E r \in Reqs : dc_delete_one(r) \/ dc_delete_usage(r)

SpecRaceAdmin == Init /\ [][NextRaceAdmin]_vars

\* The step with which the create_order request r returns, and its order.
Completes(r) ==
    /\ req[r].pc \in {"insert", "find_coupon2", "inc_used"}
    /\ req'[r].pc = "idle"

CompletedOrder(r) == IF req[r].pc = "insert" THEN orders'[Len(orders')] ELSE req[r].order

\* C13: when a create_order request returns, its order has exactly one
\* usage record if coupon_discount > 0 (carrying the order's discount, for
\* a coupon that is stored and counts at least this redemption) and none
\* otherwise, also when an admin deletes the coupon while the request is
\* in flight.
C13_OneUsagePerDiscountedOrder ==
    [][\A r \in Reqs :
          Completes(r) =>
             LET o == CompletedOrder(r)
                 recs == {i \in 1..Len(coupon_usage') :
                             coupon_usage'[i].order_id = o.order_id}
             IN  IF o.coupon_discount > 0
                    THEN /\ Cardinality(recs) = 1
                         /\ \A i \in recs :
                               /\ coupon_usage'[i].discount_amount = o.coupon_discount
                               /\ \E c \in coupons' :
                                     /\ c.coupon_id = coupon_usage'[i].coupon_id
                                     /\ c.used_count >= 1
                    ELSE recs = {}]_vars

(***************************************************************************)
(* Properties of persisted orders and of the usage ledger.                 *)
(***************************************************************************)
\* The usage records of a coupon, and those of one user.
UsagesOf(coupon_id) == {i \in 1..Len(coupon_usage) : coupon_usage[i].coupon_id = coupon_id}

UsagesBy(coupon_id, user_id) ==
    {i \in UsagesOf(coupon_id) : coupon_usage[i].user_id = user_id}

\* The amount left after the discount, never below zero.
PostDiscount(o) ==
    IF o.subtotal - o.coupon_discount > 0 THEN o.subtotal - o.coupon_discount ELSE 0

\* C1: the coupon_discount of an order being persisted is 0 or the discount
\* recomputed for a coupon that is eligible at that moment; what the client
\* sent never determines it.
C1_DiscountRevalidated ==
    [][Len(orders') > Len(orders) =>
          LET o == orders'[Len(orders')]
          IN  \/ o.coupon_discount = 0
              \/ \E c \in coupons :
                    /\ CodeGiven(o.coupon_code)
                    /\ c.code = Upper(Val(o.coupon_code))
                    /\ check_coupon_eligibility(c, o.user_id, o.subtotal, coupon_usage, now) = ""
                    /\ o.coupon_discount = calculate_discount(c, o.subtotal)]_vars

\* C3: a coupon with a usage limit never has more usage records, nor a
\* higher used_count, than its limit, under any interleaving of concurrent
\* create_order requests.
C3_UsageLimitRespected ==
    \A c \in coupons :
        c.usage_limit # None =>
            /\ c.used_count <= Val(c.usage_limit)
            /\ Cardinality(UsagesOf(c.coupon_id)) <= Val(c.usage_limit)

\* C4: a one-time-per-user coupon never has two usage records of the same
\* user.
C4_OneUsagePerUser ==
    \A c \in coupons : \A u \in Users :
        c.one_time_per_user => Cardinality(UsagesBy(c.coupon_id, u)) <= 1

\* C5: the GST of every persisted order is its post-discount amount times
\* its GST percentage over 100, rounded to hundredths (1000 less 100 at 18%
\* gives 162), never the GST of the undiscounted subtotal.
C5_GstOnDiscounted ==
    \A i \in 1..Len(orders) :
        LET o == orders[i]
        IN  /\ o.discounted_subtotal = PostDiscount(o)
            /\ o.gst_amount = Round2(o.discounted_subtotal * o.gst_percentage, 100)
            /\ (o.subtotal = 100000 /\ o.coupon_discount = 10000 /\ o.gst_percentage = 18)
                  => o.gst_amount = 16200

C5_Witness ==
    \E i \in 1..Len(orders) :
        /\ orders[i].subtotal = 100000
        /\ orders[i].coupon_discount = 10000
        /\ orders[i].gst_amount = 16200

\* C6: the shipping charge of an order being persisted is the charge of an
\* active tier covering its discounted subtotal whenever one exists, taken
\* unreduced.
C6_ShippingOnDiscounted ==
    [][Len(orders') > Len(orders) =>
          LET o == orders'[Len(orders')]
              covering == {t \in shipping_tiers :
                              /\ t.is_active
                              /\ t.min_amount <= PostDiscount(o)
                              /\ (t.max_amount = None \/ PostDiscount(o) <= Val(t.max_amount))}
          IN  covering # {} => o.shipping_charge \in {t.shipping_charge : t \in covering}]_vars

\* A discount of 200 moved an order of 600 from the 500-999 tier to the
\* 0-499 tier.
C6_Witness ==
    \E i \in 1..Len(orders) :
        /\ orders[i].subtotal = 60000
        /\ orders[i].coupon_discount = 20000
        /\ orders[i].shipping_charge = 8000

\* C7: every persisted order has discounted_subtotal = max(0, subtotal -
\* coupon_discount) >= 0 and a coupon_discount that is not negative.
C7_DiscountNonNegative ==
    \A i \in 1..Len(orders) :
        /\ orders[i].discounted_subtotal = PostDiscount(orders[i])
        /\ orders[i].discounted_subtotal >= 0
        /\ orders[i].coupon_discount >= 0

\* C8: the total of every persisted order is its discounted subtotal plus
\* its GST plus its shipping charge.
C8_TotalIsSum ==
    \A i \in 1..Len(orders) :
        orders[i].total =
            orders[i].discounted_subtotal + orders[i].gst_amount + orders[i].shipping_charge

C8_Witness ==
    \E i \in 1..Len(orders) :
        /\ orders[i].coupon_discount > 0
        /\ orders[i].gst_amount > 0
        /\ orders[i].shipping_charge > 0
        /\ orders[i].total > orders[i].discounted_subtotal + orders[i].gst_amount

(***************************************************************************)
(* Properties of the coupon handling of one create_order request.  A step  *)
(* is related to the request that can have caused it through               *)
(* create_order_as.                                                        *)
(***************************************************************************)
\* The order a create_order step has persisted.
Persisted == Len(orders') = Len(orders) + 1

NewOrder == orders'[Len(orders')]

\* The coupons a manual code names that pass check_coupon_eligibility.
EligibleByCode(coupon_code, user_id, subtotal) ==
    {c \in CouponsByCode(coupons, coupon_code) :
        check_coupon_eligibility(c, user_id, subtotal, coupon_usage, now) = ""}

\* C14: a create_order request with a manual coupon code that is eligible
\* for the pre-discount subtotal persists an order with that code and with
\* that coupon's discount, whatever auto-apply coupons exist.
C14_ManualCouponApplied ==
    [][\A user_id \in Users, pincode \in PincodeInputs, payment_method \in PaymentMethods,
          items \in Carts, input \in CouponInputs :
          (/\ CodeGiven(input.coupon_code)
           /\ EligibleByCode(input.coupon_code, user_id, SumItems(items)) # {}
           /\ create_order_as(user_id, pincode, payment_method, items, input)
           /\ Persisted)
             => /\ NewOrder.coupon_code = input.coupon_code
                /\ \E c \in EligibleByCode(input.coupon_code, user_id, SumItems(items)) :
                      NewOrder.coupon_discount = calculate_discount(c, SumItems(items))]_vars

\* C15: a create_order request without a manual coupon code is priced with
\* the coupon get_best_auto_coupon selects, if any, recorded with
\* applied_type "auto" on the order and on its usage record.
C15_AutoApplied ==
    [][\A user_id \in Users, pincode \in PincodeInputs, payment_method \in PaymentMethods,
          items \in Carts, input \in CouponInputs :
          (/\ ~CodeGiven(input.coupon_code)
           /\ create_order_as(user_id, pincode, payment_method, items, input)
           /\ Persisted)
             => LET best == get_best_auto_coupon(coupons, user_id, SumItems(items),
                                                 coupon_usage, now)
                IN  best.coupon # None
                       => /\ NewOrder.coupon_code = Some(Val(best.coupon).code)
                          /\ NewOrder.coupon_discount = best.discount_amount
                          /\ NewOrder.coupon_applied_type = "auto"
                          /\ \E i \in 1..Len(coupon_usage') :
                                /\ coupon_usage'[i].order_id = NewOrder.order_id
                                /\ coupon_usage'[i].applied_type = "auto"]_vars

\* C16: a create_order request with a manual coupon code that is unknown,
\* inactive or not eligible is answered with an error and persists no
\* order.
C16_BadCouponRejected ==
    [][\A user_id \in Users, pincode \in PincodeInputs, payment_method \in PaymentMethods,
          items \in Carts, input \in CouponInputs :
          (/\ CodeGiven(input.coupon_code)
           /\ EligibleByCode(input.coupon_code, user_id, SumItems(items)) = {}
           /\ create_order_as(user_id, pincode, payment_method, items, input))
             => /\ ~Persisted
                /\ resp'.status = 400]_vars

(***************************************************************************)
(* check_coupon_eligibility as a function of the coupon, the user, the     *)
(* order total, the usage ledger and the clock, applied by                 *)
(* POST /coupons/validate.  The coupon is any document create_coupon and   *)
(* the redemptions can have left: create_coupon checks none of the fields  *)
(* read here.                                                              *)
(***************************************************************************)
\* str.strip() on the codes sent.
Strip(code) ==
    CASE code = " festive10 " -> "festive10"
      [] OTHER -> code

Times == {0, 1, 2}

UsageLimits == {None, Some(0), Some(1)}

MinOrders == {0, 50000}

\* No redemption yet, or one by either user.
Redeemers == {None} \cup {Some(u) : u \in Users}

\* The usage record of an order placed with the coupon by user_id.
RedeemedUsage(coupon_id, code, user_id) ==
    [coupon_id |-> coupon_id, coupon_code |-> code, user_id |-> user_id,
     order_id |-> 1, discount_amount |-> 20000, order_subtotal |-> 60000,
     applied_type |-> "manual"]

InitEligibility ==
    /\ \E is_active \in BOOLEAN, expires_at \in {None, Some(1)}, usage_limit \in UsageLimits,
          one_time_per_user \in BOOLEAN, min_order_value \in MinOrders,
          redeemer \in Redeemers :
          /\ coupons = {[coupon_id |-> 1, code |-> "FESTIVE10", coupon_type |-> "fixed",
                         discount_value |-> 20000, min_order_value |-> min_order_value,
                         max_discount |-> None, usage_limit |-> usage_limit,
                         used_count |-> IF redeemer = None THEN 0 ELSE 1,
                         one_time_per_user |-> one_time_per_user, auto_apply |-> FALSE,
                         is_active |-> is_active, expires_at |-> expires_at]}
          /\ coupon_usage = IF redeemer = None THEN <<>>
                            ELSE <<RedeemedUsage(1, "FESTIVE10", Val(redeemer))>>
    /\ now \in Times
    /\ shipping_tiers = {}
    /\ orders = <<>>
    /\ gst_settings = None
    /\ return_requests = {}
    /\ req = NoReqs
    /\ resp = [op |-> "none", status |-> 0]

ValidateCodes == {"festive10", " festive10 ", "nope"}

ValidateTotals == {14999, 60000, 100000, 300000}

\* POST /coupons/validate for one request.
validate_coupon_as(user_id, code, order_total) ==
    /\ \E coupon \in FindOne({c \in coupons : c.code = Upper(Strip(code))}) :
          IF coupon = None
             THEN resp' = [op |-> "validate_coupon", status |-> 404,
                           detail |-> "Invalid coupon code"]
             ELSE LET error_msg == check_coupon_eligibility(Val(coupon), user_id, order_total,
                                                            coupon_usage, now)
                  IN  IF error_msg # ""
                         THEN resp' = [op |-> "validate_coupon", status |-> 400,
                                       detail |-> error_msg]
                         ELSE resp' = [op |-> "validate_coupon", status |-> 200,
                                       discount_amount |->
                                           calculate_discount(Val(coupon), order_total),
                                       order_total |-> order_total,
                                       new_total |->
                                           order_total
                                             - calculate_discount(Val(coupon), order_total)]
    /\ UNCHANGED <<shipping_tiers, shop, req>>

validate_coupon ==
    \E user_id \in Users, code \in ValidateCodes, order_total \in ValidateTotals :
        validate_coupon_as(user_id, code, order_total)

NextEligibility == validate_coupon

SpecEligibility == InitEligibility /\ [][NextEligibility]_vars

\* The five checks in their order: whether the check fails, and its reason.
EligibilityChecks(c, user_id, subtotal) ==
    <<[fails |-> ~c.is_active,
       reason |-> "Coupon is not active"],
      [fails |-> c.expires_at # None /\ ~(now <= Val(c.expires_at)),
       reason |-> "Coupon has expired"],
      [fails |-> c.usage_limit # None /\ ~(c.used_count < Val(c.usage_limit)),
       reason |-> "Coupon usage limit reached"],
      [fails |-> c.one_time_per_user /\ UsagesBy(c.coupon_id, user_id) # {},
       reason |-> "Already used this coupon"],
      [fails |-> subtotal < c.min_order_value,
       reason |-> "Minimum order required"]>>

FailingChecks(c, user_id, subtotal) ==
    {k \in 1..5 : EligibilityChecks(c, user_id, subtotal)[k].fails}

\* C17: the coupon is reported eligible exactly when none of the five
\* checks fails, and is otherwise rejected with the reason of the earliest
\* failing check in the order is_active, expiry, usage limit,
\* one-time-per-user, minimum order; now = expires_at does not fail.
C17_FirstFailingCheck ==
    [][\A user_id \in Users, code \in ValidateCodes, order_total \in ValidateTotals,
          c \in coupons :
          (c.code = Upper(Strip(code)) /\ validate_coupon_as(user_id, code, order_total))
             => LET failing == FailingChecks(c, user_id, order_total)
                IN  IF failing = {}
                       THEN resp'.status = 200
                       ELSE /\ resp'.status = 400
                            /\ \E k \in failing :
                                  /\ \A j \in failing : k <= j
                                  /\ resp'.detail =
                                        EligibilityChecks(c, user_id, order_total)[k].reason]_vars

(***************************************************************************)
(* get_best_auto_coupon over tables of two coupons.                        *)
(***************************************************************************)
\* coupon_type, discount_value and max_discount of a coupon.
Offers ==
    {[coupon_type |-> "percentage", discount_value |-> 10, max_discount |-> None],
     [coupon_type |-> "percentage", discount_value |-> 10, max_discount |-> Some(5000)],
     [coupon_type |-> "percentage", discount_value |-> 0, max_discount |-> None],
     [coupon_type |-> "fixed", discount_value |-> 6000, max_discount |-> None]}

\* The part of a coupon an admin chooses here.
CouponChoices ==
    [offer : Offers, min_order_value : MinOrders, auto_apply : BOOLEAN, is_active : BOOLEAN]

ChosenCoupon(coupon_id, code, ch, used_count) ==
    [coupon_id |-> coupon_id, code |-> code, coupon_type |-> ch.offer.coupon_type,
     discount_value |-> ch.offer.discount_value, min_order_value |-> ch.min_order_value,
     max_discount |-> ch.offer.max_discount, usage_limit |-> None,
     used_count |-> used_count, one_time_per_user |-> TRUE,
     auto_apply |-> ch.auto_apply, is_active |-> ch.is_active, expires_at |-> None]

InitAutoApply ==
    /\ \E ch1 \in CouponChoices, ch2 \in CouponChoices, redeemer \in Redeemers :
          /\ coupons = {ChosenCoupon(1, "FESTIVE10", ch1, IF redeemer = None THEN 0 ELSE 1),
                        ChosenCoupon(2, "FLAT200", ch2, 0)}
          /\ coupon_usage = IF redeemer = None THEN <<>>
                            ELSE <<RedeemedUsage(1, "FESTIVE10", Val(redeemer))>>
    /\ now = 0
    /\ shipping_tiers = {}
    /\ orders = <<>>
    /\ gst_settings = None
    /\ return_requests = {}
    /\ req = NoReqs
    /\ resp = [op |-> "none", status |-> 0]

\* Subtotals asked about: invalid ones, one whose 10% rounds to 0.00, and
\* one on which 10% and the fixed 60.00 tie.
AutoSubtotals == {-100, 0, 4, 60000}

\* GET /coupons/auto-apply for one request.
auto_apply_as(user_id, subtotal) ==
    /\ LET best == get_best_auto_coupon(coupons, user_id, subtotal, coupon_usage, now)
       IN  resp' = [op |-> "get_best_auto_coupon", status |-> 200,
                    coupon |-> IF best.coupon = None THEN None
                               ELSE Some(Val(best.coupon).code),
                    discount_amount |-> best.discount_amount]
    /\ UNCHANGED <<shipping_tiers, shop, req>>

auto_apply ==
    \E user_id \in Users, subtotal \in AutoSubtotals : auto_apply_as(user_id, subtotal)

NextAutoApply == auto_apply

SpecAutoApply == InitAutoApply /\ [][NextAutoApply]_vars

\* The auto-apply coupons that pass check_coupon_eligibility.
EligibleAuto(user_id, subtotal) ==
    {c \in coupons : /\ c.auto_apply
                     /\ check_coupon_eligibility(c, user_id, subtotal, coupon_usage, now) = ""}

\* The response names a coupon of the pool with the highest discount of the
\* pool, the first such coupon in candidate order.
ReturnsBestOf(pool, subtotal) ==
    /\ resp'.coupon # None
    /\ \E b \in pool :
          /\ resp'.coupon = Some(b.code)
          /\ resp'.discount_amount = calculate_discount(b, subtotal)
          /\ \A o \in pool :
                /\ calculate_discount(o, subtotal) <= calculate_discount(b, subtotal)
                /\ calculate_discount(o, subtotal) = calculate_discount(b, subtotal)
                      => b.coupon_id <= o.coupon_id

\* C18: whenever the subtotal is positive and some auto-apply coupon is
\* eligible, get_best_auto_coupon returns an eligible auto-apply coupon of
\* maximal discount, the first in candidate order on equal discounts; it
\* returns no coupon when none is eligible or when subtotal <= 0.
C18_BestOfEligible ==
    [][\A user_id \in Users, subtotal \in AutoSubtotals :
          auto_apply_as(user_id, subtotal)
             => IF subtotal <= 0 \/ EligibleAuto(user_id, subtotal) = {}
                   THEN resp'.coupon = None
                   ELSE ReturnsBestOf(EligibleAuto(user_id, subtotal), subtotal)]_vars

(***************************************************************************)
(* Coupon administration: create_coupon and update_coupon on an empty      *)
(* collection.  The requests set code, coupon_type and discount_value;     *)
(* the other fields keep the defaults of CouponCreate, or stay as they     *)
(* are on update.                                                          *)
(***************************************************************************)
MaxCoupons == 2

AdminCodes == {"festive10", " festive10 ", "FLAT200"}

CouponTypes == {"percentage", "fixed"}

\* discount_value as an admin may send it: negative, in range, above 100.
DiscountValues == {-5, 10, 150}

PercentageOutOfRange(coupon_type, discount_value) ==
    coupon_type = Some("percentage") /\ (discount_value < 0 \/ discount_value > 100)

NewCoupon(coupon_id, code, coupon_type, discount_value) ==
    [coupon_id |-> coupon_id, code |-> code, coupon_type |-> coupon_type,
     discount_value |-> discount_value, min_order_value |-> 0, max_discount |-> None,
     usage_limit |-> None, used_count |-> 0, one_time_per_user |-> TRUE,
     auto_apply |-> FALSE, is_active |-> TRUE, expires_at |-> None]

\* POST /coupons/admin/create.
create_coupon ==
    \E data_code \in AdminCodes, coupon_type \in CouponTypes,
       discount_value \in DiscountValues :
        LET code == Upper(Strip(data_code))
        IN  /\ Cardinality(coupons) < MaxCoupons
            /\ IF \E c \in coupons : c.code = code
                  THEN /\ resp' = [op |-> "create_coupon", status |-> 400,
                                   detail |-> "Coupon code already exists"]
                       /\ UNCHANGED coupons
               ELSE IF PercentageOutOfRange(Some(coupon_type), discount_value)
                  THEN /\ resp' = [op |-> "create_coupon", status |-> 400,
                                   detail |-> "Percentage discount must be between 0 and 100"]
                       /\ UNCHANGED coupons
               ELSE IF discount_value < 0
                  THEN /\ resp' = [op |-> "create_coupon", status |-> 400,
                                   detail |-> "Discount value cannot be negative"]
                       /\ UNCHANGED coupons
               ELSE /\ coupons' = coupons \cup {NewCoupon(Cardinality(coupons) + 1, code,
                                                          coupon_type, discount_value)}
                    /\ resp' = [op |-> "create_coupon", status |-> 200]
            /\ UNCHANGED <<shipping_tiers, coupon_usage, orders, gst_settings,
                           return_requests, now, req>>

\* The document after $set of the fields the request carries.
UpdatedCoupon(c, data_code, coupon_type, discount_value) ==
    [c EXCEPT !.code = IF data_code # None THEN Upper(Strip(Val(data_code))) ELSE @,
              !.coupon_type = IF coupon_type # None THEN Val(coupon_type) ELSE @,
              !.discount_value = IF discount_value # None THEN Val(discount_value) ELSE @]

\* PUT /coupons/admin/{coupon_id}.
update_coupon ==
    \E coupon_id \in 1..MaxCoupons,
       data_code \in {None} \cup {Some(k) : k \in AdminCodes},
       coupon_type \in {None} \cup {Some(t) : t \in CouponTypes},
       discount_value \in {None} \cup {Some(v) : v \in DiscountValues} :
        /\ IF ~\E c \in coupons : c.coupon_id = coupon_id
              THEN /\ resp' = [op |-> "update_coupon", status |-> 404]
                   /\ UNCHANGED coupons
           ELSE IF /\ data_code # None
                   /\ \E c \in coupons : /\ c.code = Upper(Strip(Val(data_code)))
                                         /\ c.coupon_id # coupon_id
              THEN /\ resp' = [op |-> "update_coupon", status |-> 400,
                               detail |-> "Coupon code already exists"]
                   /\ UNCHANGED coupons
           ELSE IF /\ discount_value # None
                   /\ PercentageOutOfRange(coupon_type, Val(discount_value))
              THEN /\ resp' = [op |-> "update_coupon", status |-> 400,
                               detail |-> "Percentage discount must be between 0 and 100"]
                   /\ UNCHANGED coupons
           ELSE /\ coupons' = {IF c.coupon_id = coupon_id
                                  THEN UpdatedCoupon(c, data_code, coupon_type, discount_value)
                                  ELSE c : c \in coupons}
                /\ resp' = [op |-> "update_coupon", status |-> 200]
        /\ UNCHANGED <<shipping_tiers, coupon_usage, orders, gst_settings,
                       return_requests, now, req>>

InitCoupon ==
    /\ shipping_tiers = {}
    /\ coupons = {}
    /\ coupon_usage = <<>>
    /\ orders = <<>>
    /\ gst_settings = None
    /\ return_requests = {}
    /\ now = 0
    /\ req = NoReqs
    /\ resp = [op |-> "none", status |-> 0]

NextCoupon == create_coupon \/ update_coupon

SpecCoupon == InitCoupon /\ [][NextCoupon]_vars

\* C19: every stored coupon has discount_value >= 0, and a discount_value
\* of at most 100 if its type is percentage, after any sequence of
\* create_coupon and update_coupon calls.
C19_DiscountValueInRange ==
    \A c \in coupons :
        /\ c.discount_value >= 0
        /\ c.coupon_type = "percentage" => c.discount_value <= 100

(***************************************************************************)
(* calculate_discount as a function of the coupon and the order total,     *)
(* applied by POST /coupons/validate to a coupon that passes every         *)
(* eligibility check.                                                      *)
(***************************************************************************)
\* Percentages create_coupon accepts, and two fixed amounts.
NewOffers ==
    [coupon_type : {"percentage"}, discount_value : {0, 10, 33, 100},
     max_discount : {None, Some(0), Some(5000), Some(20000)}]
    \cup [coupon_type : {"fixed"}, discount_value : {5000, 20000},
          max_discount : {None, Some(0), Some(5000), Some(20000)}]

InitDiscount ==
    /\ \E offer \in NewOffers :
          coupons = {[NewCoupon(1, "FESTIVE10", offer.coupon_type, offer.discount_value)
                         EXCEPT !.max_discount = offer.max_discount,
                                !.one_time_per_user = FALSE]}
    /\ coupon_usage = <<>>
    /\ now = 0
    /\ shipping_tiers = {}
    /\ orders = <<>>
    /\ gst_settings = None
    /\ return_requests = {}
    /\ req = NoReqs
    /\ resp = [op |-> "none", status |-> 0]

SpecDiscount == InitDiscount /\ [][NextEligibility]_vars

\* subtotal * discount_value / 100, to the hundredth.
RawPercentage(c, subtotal) == Round2(subtotal * c.discount_value, 100)

\* The raw amount, or max_discount where that is set and exceeded.
ClampedPercentage(c, subtotal) ==
    IF c.max_discount # None /\ subtotal * c.discount_value > Val(c.max_discount) * 100
       THEN Val(c.max_discount)
       ELSE RawPercentage(c, subtotal)

\* C20: for a percentage coupon the discount is subtotal * discount_value /
\* 100, replaced by max_discount whenever max_discount is set (0 included)
\* and the raw amount exceeds it.
C20_PercentageClamped ==
    (resp.op = "validate_coupon" /\ resp.status = 200)
        => \A c \in coupons :
              c.coupon_type = "percentage"
                 => resp.discount_amount = ClampedPercentage(c, resp.order_total)

\* C21: for a fixed coupon the discount is discount_value where that does
\* not exceed the subtotal and the subtotal otherwise, so it never exceeds
\* the subtotal and the amount left after it is never negative.
C21_FixedAtMostSubtotal ==
    (resp.op = "validate_coupon" /\ resp.status = 200)
        => \A c \in coupons :
              c.coupon_type = "fixed"
                 => /\ c.discount_value <= resp.order_total
                          => resp.discount_amount = c.discount_value
                    /\ c.discount_value > resp.order_total
                          => resp.discount_amount = resp.order_total
                    /\ resp.discount_amount <= resp.order_total
                    /\ resp.new_total = resp.order_total - resp.discount_amount
                    /\ resp.new_total >= 0

\* A fixed 200.00 on 149.99 takes 149.99 off and leaves nothing.
C21_Witness ==
    /\ resp.op = "validate_coupon"
    /\ resp.status = 200
    /\ resp.order_total = 14999
    /\ resp.discount_amount = 14999
    /\ resp.new_total = 0
    /\ \E c \in coupons : c.coupon_type = "fixed" /\ c.discount_value = 20000

\* C22: a coupon whose usage_limit is set (0 included) is reported eligible
\* only if used_count < usage_limit; with used_count >= usage_limit it is
\* rejected, with the usage-limit reason unless it is inactive or expired.
C22_UsageLimitChecked ==
    resp.op = "validate_coupon"
        => \A c \in coupons :
              (c.usage_limit # None /\ c.used_count >= Val(c.usage_limit))
                 => /\ resp.status # 200
                    /\ (/\ resp.status = 400
                        /\ c.is_active
                        /\ (c.expires_at = None \/ now <= Val(c.expires_at)))
                          => resp.detail = "Coupon usage limit reached"

\* C25: an order whose discounted subtotal no active tier covers is still
\* persisted, with shipping_charge 0, and create_order logs the gap as
\* calculate_shipping does (a warning, tier_matched false).
C25_MissingTierLoggedZeroShipping ==
    [][/\ \A user_id \in Users, pincode \in PincodeInputs,
             payment_method \in PaymentMethods, items \in Carts, input \in CouponInputs :
             (/\ ~PincodeRejected(pincode, payment_method)
              /\ create_order_as(user_id, pincode, payment_method, items, input))
                => /\ Persisted
                   /\ OrderTiers(shipping_tiers, NewOrder.subtotal,
                                 NewOrder.coupon_discount) = {}
                         => /\ NewOrder.shipping_charge = 0
                            /\ resp'.logged # {}
       /\ (resp'.op = "calculate_shipping" /\ resp'.status = 200
             /\ MatchingTiers(shipping_tiers, resp'.subtotal) = {})
               => /\ resp'.shipping_charge = 0
                  /\ ~resp'.tier_matched
                  /\ resp'.logged # {}]_vars

(***************************************************************************)
(* create_coupon and update_coupon as the event loop runs them: each       *)
(* await on the database is a step, and the steps of different requests    *)
(* interleave.  The coupons collection has no unique index on code.        *)
(***************************************************************************)
RaceCodes == {"festive10", "FLAT200"}

\* The create_coupon requests between find_one and insert_one.
Inserting == {q \in Reqs : req[q].pc = "cc_insert_one"}

\* create_coupon up to db.coupons.find_one({"code": code}) and the checks of
\* discount_value.
cc_find_one_as(r, data_code, coupon_type, discount_value) ==
    LET code == Upper(Strip(data_code))
    IN  /\ req[r].pc = "idle"
        /\ Cardinality(coupons) + Cardinality(Inserting) < MaxCoupons
        /\ IF \E c \in coupons : c.code = code
              THEN /\ resp' = [op |-> "create_coupon", status |-> 400,
                               detail |-> "Coupon code already exists"]
                   /\ UNCHANGED req
           ELSE IF PercentageOutOfRange(Some(coupon_type), discount_value)
              THEN /\ resp' = [op |-> "create_coupon", status |-> 400,
                               detail |-> "Percentage discount must be between 0 and 100"]
                   /\ UNCHANGED req
           ELSE IF discount_value < 0
              THEN /\ resp' = [op |-> "create_coupon", status |-> 400,
                               detail |-> "Discount value cannot be negative"]
                   /\ UNCHANGED req
           ELSE /\ req' = [req EXCEPT ![r] =
                             [pc |-> "cc_insert_one", code |-> code,
                              coupon_type |-> coupon_type,
                              discount_value |-> discount_value]]
                /\ UNCHANGED resp
        /\ UNCHANGED <<shipping_tiers, shop>>

cc_find_one(r) ==
    \E data_code \in RaceCodes, coupon_type \in CouponTypes, discount_value \in {-5, 10} :
        cc_find_one_as(r, data_code, coupon_type, discount_value)

\* db.coupons.insert_one(coupon); the coupon is returned.
cc_insert_one(r) ==
    /\ req[r].pc = "cc_insert_one"
    /\ coupons' = coupons \cup {NewCoupon(Cardinality(coupons) + 1, req[r].code,
                                          req[r].coupon_type, req[r].discount_value)}
    /\ req' = [req EXCEPT ![r] = Idle]
    /\ resp' = [op |-> "create_coupon", status |-> 200]
    /\ UNCHANGED <<shipping_tiers, coupon_usage, orders, gst_settings, return_requests, now>>

\* update_coupon up to db.coupons.find_one({"coupon_id": coupon_id}).
uc_find_one_as(r, coupon_id, data_code) ==
    /\ req[r].pc = "idle"
    /\ IF ~\E c \in coupons : c.coupon_id = coupon_id
          THEN /\ resp' = [op |-> "update_coupon", status |-> 404]
               /\ UNCHANGED req
          ELSE /\ req' = [req EXCEPT ![r] =
                            [pc |-> "uc_find_existing", coupon_id |-> coupon_id,
                             data_code |-> data_code]]
               /\ UNCHANGED resp
    /\ UNCHANGED <<shipping_tiers, shop>>

uc_find_one(r) ==
    \E coupon_id \in 1..MaxCoupons, data_code \in {None} \cup {Some(k) : k \in RaceCodes} :
        uc_find_one_as(r, coupon_id, data_code)

\* The find_one for another coupon with the new code, when the request
\* carries a code.
uc_find_existing(r) ==
    /\ req[r].pc = "uc_find_existing"
    /\ IF /\ req[r].data_code # None
          /\ \E c \in coupons : /\ c.code = Upper(Strip(Val(req[r].data_code)))
                                /\ c.coupon_id # req[r].coupon_id
          THEN /\ resp' = [op |-> "update_coupon", status |-> 400,
                           detail |-> "Coupon code already exists"]
               /\ req' = [req EXCEPT ![r] = Idle]
          ELSE /\ req' = [req EXCEPT ![r] = [@ EXCEPT !.pc = "uc_update_one"]]
               /\ UNCHANGED resp
    /\ UNCHANGED <<shipping_tiers, shop>>

\* db.coupons.update_one with $set; the updated coupon is returned.
uc_update_one(r) ==
    /\ req[r].pc = "uc_update_one"
    /\ coupons' = {IF c.coupon_id = req[r].coupon_id
                      THEN UpdatedCoupon(c, req[r].data_code, None, None)
                      ELSE c : c \in coupons}
    /\ req' = [req EXCEPT ![r] = Idle]
    /\ resp' = [op |-> "update_coupon", status |-> 200]
    /\ UNCHANGED <<shipping_tiers, coupon_usage, orders, gst_settings, return_requests, now>>

NextCouponRace ==
    \E r \in Reqs :
        \/ cc_find_one(r)
        \/ cc_insert_one(r)
        \/ uc_find_one(r)
        \/ uc_find_existing(r)
        \/ uc_update_one(r)

SpecCouponRace == InitCoupon /\ [][NextCouponRace]_vars

\* C26: under any interleaving of create_coupon and update_coupon every
\* stored code is upper-cased and no two coupons share a code; a create
\* with a code that is already stored is answered 400 "already exists" and
\* writes nothing.
C26_CodesUniqueUpper ==
    [][/\ \A c \in coupons' : c.code = Upper(c.code)
       /\ \A c, d \in coupons' : c.code = d.code => c.coupon_id = d.coupon_id
       /\ \A r \in Reqs, data_code \in RaceCodes, coupon_type \in CouponTypes,
             discount_value \in {-5, 10} :
             (/\ \E c \in coupons : c.code = Upper(Strip(data_code))
              /\ cc_find_one_as(r, data_code, coupon_type, discount_value))
                => /\ resp'.status = 400
                   /\ resp'.detail = "Coupon code already exists"
                   /\ coupons' = coupons]_vars

(***************************************************************************)
(* The life of an order after create_order: verify_payment,                *)
(* update_order_status and update_tracking (order_routes.py), return       *)
(* requests (return_routes.py), next to the admin edits of GST, tiers and  *)
(* coupons.  Every write to db.orders after insert_one is an update_one    *)
(* with $set; updated_at, which each of them sets, is not modelled.        *)
(***************************************************************************)
MaxReturns == 1

\* $set: the fields of update replace or extend those of the document.
SetFields(doc, update) ==
    [k \in DOMAIN doc \cup DOMAIN update |->
        IF k \in DOMAIN update THEN update[k] ELSE doc[k]]

\* db.orders.update_one on the orders the filter matches (order_id is unique).
UpdateOrders(matching, update) ==
    [i \in 1..Len(orders) |->
        IF orders[i] \in matching THEN SetFields(orders[i], update) ELSE orders[i]]

OrdersOf(order_id, user_id) ==
    {o \in {orders[i] : i \in 1..Len(orders)} : o.order_id = order_id /\ o.user_id = user_id}

OrdersById(order_id) ==
    {o \in {orders[i] : i \in 1..Len(orders)} : o.order_id = order_id}

OrderIds == 1..MaxOrders

\* razorpay_order_id of a request: one of the mock orders (prefix order_mock)
\* and one issued by Razorpay.
RazorpayOrderIds == {"order_mock_1", "order_live_1"}

IsMock(razorpay_order_id) == razorpay_order_id = "order_mock_1"

\* The $set of a verified payment; the mock branch stores no signature.
PaymentVerified(razorpay_order_id) ==
    IF IsMock(razorpay_order_id)
       THEN [payment_status |-> "success", razorpay_order_id |-> razorpay_order_id,
             razorpay_payment_id |-> "pay_1", order_status |-> "confirmed"]
       ELSE [payment_status |-> "success", razorpay_order_id |-> razorpay_order_id,
             razorpay_payment_id |-> "pay_1", razorpay_signature |-> "sig_1",
             order_status |-> "confirmed"]

\* POST /orders/verify-payment.  configured: razorpay_client was built at
\* start-up; signature_ok: verify_payment_signature does not raise.
verify_payment_as(user_id, order_id, razorpay_order_id, configured, signature_ok) ==
    /\ IF OrdersOf(order_id, user_id) = {}
          THEN /\ resp' = [op |-> "verify_payment", status |-> 404]
               /\ UNCHANGED orders
       ELSE IF \E o \in OrdersOf(order_id, user_id) : o.payment_status = "success"
          THEN /\ resp' = [op |-> "verify_payment", status |-> 200]
               /\ UNCHANGED orders
       ELSE IF IsMock(razorpay_order_id)
          THEN /\ orders' = UpdateOrders(OrdersOf(order_id, user_id),
                                         PaymentVerified(razorpay_order_id))
               /\ resp' = [op |-> "verify_payment", status |-> 200]
       ELSE IF ~configured
          THEN /\ resp' = [op |-> "verify_payment", status |-> 500]
               /\ UNCHANGED orders
       ELSE IF signature_ok
          THEN /\ orders' = UpdateOrders(OrdersOf(order_id, user_id),
                                         PaymentVerified(razorpay_order_id))
               /\ resp' = [op |-> "verify_payment", status |-> 200]
       ELSE /\ orders' = UpdateOrders(OrdersById(order_id), [payment_status |-> "failed"])
            /\ resp' = [op |-> "verify_payment", status |-> 400]
    /\ UNCHANGED <<shipping_tiers, coupons, coupon_usage, gst_settings, return_requests,
                   now, req>>

verify_payment ==
    \E user_id \in Users, order_id \in OrderIds, razorpay_order_id \in RazorpayOrderIds,
       configured \in BOOLEAN, signature_ok \in BOOLEAN :
        verify_payment_as(user_id, order_id, razorpay_order_id, configured, signature_ok)

\* PUT /orders/admin/{order_id}/status.
update_order_status ==
    \E order_id \in OrderIds, new_status \in {"delivered", "cancelled"} :
        /\ IF OrdersById(order_id) = {}
              THEN /\ resp' = [op |-> "update_order_status", status |-> 404]
                   /\ UNCHANGED orders
              ELSE /\ orders' = UpdateOrders(OrdersById(order_id),
                                             [order_status |-> new_status])
                   /\ resp' = [op |-> "update_order_status", status |-> 200]
        /\ UNCHANGED <<shipping_tiers, coupons, coupon_usage, gst_settings,
                       return_requests, now, req>>

\* A $set that would also reprice the shipment.
TrackingUpdate_ShippingReset(tracking_id, courier) ==
    [tracking_id |-> tracking_id, courier |-> courier, order_status |-> "shipped",
     shipping_charge |-> 0]

\* The $set of update_tracking.
TrackingUpdate(tracking_id, courier) ==
    [tracking_id |-> tracking_id, courier |-> courier, order_status |-> "shipped"]

\* PUT /orders/admin/{order_id}/tracking.
update_tracking ==
    \E order_id \in OrderIds :
        /\ IF OrdersById(order_id) = {}
              THEN /\ resp' = [op |-> "update_tracking", status |-> 404]
                   /\ UNCHANGED orders
              ELSE /\ orders' = UpdateOrders(OrdersById(order_id),
                                             TrackingUpdate("trk_1", "bluedart"))
                   /\ resp' = [op |-> "update_tracking", status |-> 200]
        /\ UNCHANGED <<shipping_tiers, coupons, coupon_usage, gst_settings,
                       return_requests, now, req>>

\* POST /returns.  window_open: the request arrives within RETURN_WINDOW_DAYS
\* of the order's updated_at.
create_return_request ==
    \E user_id \in Users, order_id \in OrderIds, window_open \in BOOLEAN :
        /\ Cardinality(return_requests) < MaxReturns
        /\ IF OrdersOf(order_id, user_id) = {}
              THEN /\ resp' = [op |-> "create_return_request", status |-> 404]
                   /\ UNCHANGED <<orders, return_requests>>
           ELSE IF \E o \in OrdersOf(order_id, user_id) : o.order_status # "delivered"
              THEN /\ resp' = [op |-> "create_return_request", status |-> 400]
                   /\ UNCHANGED <<orders, return_requests>>
           ELSE IF \E q \in return_requests :
                      /\ q.order_id = order_id
                      /\ q.user_id = user_id
                      /\ q.status \in {"requested", "approved", "completed"}
              THEN /\ resp' = [op |-> "create_return_request", status |-> 400]
                   /\ UNCHANGED <<orders, return_requests>>
           ELSE IF ~window_open
              THEN /\ resp' = [op |-> "create_return_request", status |-> 400]
                   /\ UNCHANGED <<orders, return_requests>>
           ELSE /\ return_requests' =
                      return_requests \cup {[request_id |-> Cardinality(return_requests) + 1,
                                             order_id |-> order_id, user_id |-> user_id,
                                             status |-> "requested"]}
                /\ orders' = UpdateOrders(OrdersById(order_id),
                                          [return_status |-> "requested"])
                /\ resp' = [op |-> "create_return_request", status |-> 200]
        /\ UNCHANGED <<shipping_tiers, coupons, coupon_usage, gst_settings, now, req>>

\* PUT /returns/admin/{request_id}/status.
update_return_status ==
    \E request_id \in 1..MaxReturns, status \in {"approved", "rejected"} :
        /\ IF ~\E q \in return_requests : q.request_id = request_id
              THEN /\ resp' = [op |-> "update_return_status", status |-> 404]
                   /\ UNCHANGED <<orders, return_requests>>
              ELSE /\ return_requests' =
                         {IF q.request_id = request_id THEN [q EXCEPT !.status = status]
                                                       ELSE q : q \in return_requests}
                   /\ \E q \in return_requests :
                         /\ q.request_id = request_id
                         /\ orders' = UpdateOrders(OrdersById(q.order_id),
                                                   [return_status |-> status])
                   /\ resp' = [op |-> "update_return_status", status |-> 200]
        /\ UNCHANGED <<shipping_tiers, coupons, coupon_usage, gst_settings, now, req>>

\* PUT /coupons/admin/{coupon_id}/toggle.
toggle_coupon_status ==
    \E coupon_id \in 1..MaxCoupons :
        /\ IF ~\E c \in coupons : c.coupon_id = coupon_id
              THEN /\ resp' = [op |-> "toggle_coupon_status", status |-> 404]
                   /\ UNCHANGED coupons
              ELSE /\ coupons' = {IF c.coupon_id = coupon_id
                                     THEN [c EXCEPT !.is_active = ~@] ELSE c : c \in coupons}
                   /\ resp' = [op |-> "toggle_coupon_status", status |-> 200]
        /\ UNCHANGED <<shipping_tiers, coupon_usage, orders, gst_settings, return_requests,
                       now, req>>

\* create_order for one customer and cart, paid either way, with and
\* without the fixed coupon.
place_order ==
    \E payment_method \in PaymentMethods,
       input \in {[coupon_code |-> None, coupon_discount |-> 0],
                  [coupon_code |-> Some("FLAT200"), coupon_discount |-> 10000]} :
        create_order_as("u1", "400001", payment_method, <<60000>>, input)

NextOrderLife ==
    \/ place_order
    \/ verify_payment
    \/ update_order_status
    \/ update_tracking
    \/ create_return_request
    \/ update_return_status
    \/ update_gst_settings
    \/ toggle_tier
    \/ toggle_coupon_status

SpecOrderLife == Init /\ [][NextOrderLife]_vars

\* The pricing breakdown persisted on an order.
PricingBreakdown(order) ==
    <<order.subtotal, order.coupon_code, order.coupon_discount, order.discounted_subtotal,
      order.gst_percentage, order.gst_amount, order.shipping_charge, order.total>>

\* C27: no operation after create_order changes the pricing breakdown of a
\* persisted order, and no order is removed.
C27_PricingNeverMutated ==
    [][/\ Len(orders') >= Len(orders)
       /\ \A i \in 1..Len(orders) :
             PricingBreakdown(orders'[i]) = PricingBreakdown(orders[i])]_vars

\* An order paid, shipped with tracking, returned, after the GST rate, a
\* tier and a coupon were edited.
C27_Witness ==
    /\ gst_settings # None
    /\ \E t \in shipping_tiers : ~t.is_active
    /\ \E c \in coupons : ~c.is_active
    /\ \E i \in 1..Len(orders) :
          /\ orders[i].payment_status = "success"
          /\ "tracking_id" \in DOMAIN orders[i]
          /\ orders[i].return_status = "approved"
          /\ orders[i].shipping_charge > 0

\* C28: an order carries a coupon_code only if that coupon was found active,
\* passed check_coupon_eligibility and its calculated discount is the
\* order's coupon_discount; a code sent with coupon_discount 0 is persisted
\* as null.
C28_CodeOnlyIfApplied ==
    [][\A user_id \in Users, pincode \in PincodeInputs, payment_method \in PaymentMethods,
          items \in Carts, input \in CouponInputs :
          (/\ create_order_as(user_id, pincode, payment_method, items, input)
           /\ Persisted)
             => /\ NewOrder.coupon_code # None
                     => /\ CodeGiven(input.coupon_code)
                        /\ \E c \in EligibleByCode(input.coupon_code, user_id,
                                                   SumItems(items)) :
                              /\ c.is_active
                              /\ NewOrder.coupon_discount =
                                    calculate_discount(c, SumItems(items))
                /\ (CodeGiven(input.coupon_code) /\ input.coupon_discount = 0)
                     => NewOrder.coupon_code = None]_vars

(***************************************************************************)
(* Redemptions as the event loop runs them: create_order and               *)
(* POST /coupons/apply (apply_coupon_to_order), each await a step, next to *)
(* update_coupon and toggle_coupon_status.                                 *)
(***************************************************************************)
\* code and order_id as a client may send them to /coupons/apply; order_id
\* is a free string.
ApplyCodes == {" festive10 ", "nope"}

ApplyOrderIds == {1}

\* The apply_coupon_to_order requests in flight.
Applying ==
    {q \in Reqs : req[q].pc \in {"ac_eligibility", "ac_find_one", "ac_insert_usage",
                                  "ac_inc_used"}}

\* apply_coupon_to_order up to the find_one of validate_coupon: 404 for an
\* unknown code.
ac_find_coupon_as(r, user_id, data_code, order_id, order_subtotal) ==
    LET code == Upper(Strip(data_code))
    IN  /\ req[r].pc = "idle"
        /\ Len(coupon_usage) + Cardinality(Applying) < MaxReq
        /\ \E found \in FindOne({c \in coupons : c.code = code}) :
              IF found = None
                 THEN /\ resp' = [op |-> "apply_coupon_to_order", status |-> 404]
                      /\ UNCHANGED req
                 ELSE /\ req' = [req EXCEPT ![r] =
                                   [pc |-> "ac_eligibility", user_id |-> user_id,
                                    code |-> code, order_id |-> order_id,
                                    order_subtotal |-> order_subtotal,
                                    coupon |-> Val(found)]]
                      /\ UNCHANGED resp
        /\ UNCHANGED <<shipping_tiers, shop>>

ac_find_coupon(r) ==
    \E user_id \in Users, data_code \in ApplyCodes, order_id \in ApplyOrderIds :
        ac_find_coupon_as(r, user_id, data_code, order_id, 60000)

\* check_coupon_eligibility and calculate_discount of validate_coupon: 400
\* when a check fails.
ac_eligibility(r) ==
    /\ req[r].pc = "ac_eligibility"
    /\ IF check_coupon_eligibility(req[r].coupon, req[r].user_id, req[r].order_subtotal,
                                   coupon_usage, now) # ""
          THEN /\ resp' = [op |-> "apply_coupon_to_order", status |-> 400]
               /\ req' = [req EXCEPT ![r] = Idle]
          ELSE /\ req' = [req EXCEPT ![r] =
                            [pc |-> "ac_find_one", user_id |-> req[r].user_id,
                             code |-> req[r].code, order_id |-> req[r].order_id,
                             order_subtotal |-> req[r].order_subtotal,
                             discount_amount |->
                                 calculate_discount(req[r].coupon, req[r].order_subtotal)]]
               /\ UNCHANGED resp
    /\ UNCHANGED <<shipping_tiers, shop>>

\* The handler's own db.coupons.find_one by code; when the coupon is gone
\* coupon["coupon_id"] raises and the request ends with 500.
ac_find_one(r) ==
    /\ req[r].pc = "ac_find_one"
    /\ \E found \in FindOne({c \in coupons : c.code = req[r].code}) :
          IF found = None
             THEN /\ resp' = [op |-> "apply_coupon_to_order", status |-> 500]
                  /\ req' = [req EXCEPT ![r] = Idle]
             ELSE /\ req' = [req EXCEPT ![r] =
                               [pc |-> "ac_insert_usage", user_id |-> req[r].user_id,
                                code |-> req[r].code, order_id |-> req[r].order_id,
                                order_subtotal |-> req[r].order_subtotal,
                                discount_amount |-> req[r].discount_amount,
                                coupon_id |-> Val(found).coupon_id]]
                  /\ UNCHANGED resp
    /\ UNCHANGED <<shipping_tiers, shop>>

\* db.coupon_usage.insert_one(usage).
ac_insert_usage(r) ==
    /\ req[r].pc = "ac_insert_usage"
    /\ coupon_usage' = Append(coupon_usage,
                              [coupon_id |-> req[r].coupon_id,
                               coupon_code |-> req[r].code,
                               user_id |-> req[r].user_id,
                               order_id |-> req[r].order_id,
                               discount_amount |-> req[r].discount_amount,
                               order_subtotal |-> req[r].order_subtotal,
                               applied_type |-> "manual"])
    /\ req' = [req EXCEPT ![r] = [pc |-> "ac_inc_used", coupon_id |-> req[r].coupon_id]]
    /\ UNCHANGED <<shipping_tiers, coupons, orders, gst_settings, return_requests, now,
                   resp>>

\* db.coupons.update_one with $inc; {"applied": True, ...} is returned.
ac_inc_used(r) ==
    /\ req[r].pc = "ac_inc_used"
    /\ coupons' = IncUsed(coupons, req[r].coupon_id)
    /\ req' = [req EXCEPT ![r] = Idle]
    /\ resp' = [op |-> "apply_coupon_to_order", status |-> 200]
    /\ UNCHANGED <<shipping_tiers, coupon_usage, orders, gst_settings, return_requests,
                   now>>

\* toggle_coupon_status of the percentage coupon up to find_one: the new
\* status is computed from the document read here.
tcs_find_one(r) ==
    \E coupon_id \in {1} :
        /\ req[r].pc = "idle"
        /\ \E found \in FindOne({c \in coupons : c.coupon_id = coupon_id}) :
              IF found = None
                 THEN /\ resp' = [op |-> "toggle_coupon_status", status |-> 404]
                      /\ UNCHANGED req
                 ELSE /\ req' = [req EXCEPT ![r] =
                                   [pc |-> "tcs_update_one", coupon_id |-> coupon_id,
                                    new_status |-> ~Val(found).is_active]]
                      /\ UNCHANGED resp
        /\ UNCHANGED <<shipping_tiers, shop>>

\* db.coupons.update_one with $set of is_active.
tcs_update_one(r) ==
    /\ req[r].pc = "tcs_update_one"
    /\ coupons' = {IF c.coupon_id = req[r].coupon_id
                      THEN [c EXCEPT !.is_active = req[r].new_status] ELSE c : c \in coupons}
    /\ req' = [req EXCEPT ![r] = Idle]
    /\ resp' = [op |-> "toggle_coupon_status", status |-> 200]
    /\ UNCHANGED <<shipping_tiers, coupon_usage, orders, gst_settings, return_requests,
                   now>>

\* create_order of one cart with the percentage coupon, paid online.
redeem_start(r) ==
    \E user_id \in Users :
        co_start_as(r, user_id, "400001", "razorpay", <<60000>>,
                    [coupon_code |-> Some("festive10"), coupon_discount |-> 10000])

\* update_coupon renaming the fixed coupon.
rename_find_one(r) == uc_find_one_as(r, 2, Some("nope"))

NextUsageRace ==
    \E r \in Reqs :
        \/ redeem_start(r)
        \/ co_find_coupon(r)
        \/ co_eligibility(r)
        \/ co_gst_settings(r)
        \/ co_shipping(r)
        \/ co_insert(r)
        \/ co_find_coupon2(r)
        \/ co_insert_usage(r)
        \/ co_inc_used(r)
        \/ ac_find_coupon(r)
        \/ ac_eligibility(r)
        \/ ac_find_one(r)
        \/ ac_insert_usage(r)
        \/ ac_inc_used(r)
        \/ rename_find_one(r)
        \/ uc_find_existing(r)
        \/ uc_update_one(r)
        \/ tcs_find_one(r)
        \/ tcs_update_one(r)

SpecUsageRace == Init /\ [][NextUsageRace]_vars

\* The usage records of a coupon.
UsageOf(usage, coupon_id) == {i \in 1..Len(usage) : usage[i].coupon_id = coupon_id}

\* The requests that have inserted a usage record of the coupon and not yet
\* incremented its used_count.
Incrementing(rq, coupon_id) ==
    {q \in Reqs : rq[q].pc \in {"inc_used", "ac_inc_used"} /\ rq[q].coupon_id = coupon_id}

\* C29: under any interleaving of create_order, apply_coupon_to_order,
\* update_coupon and toggle_coupon_status, used_count plus the increments
\* still to come equals the number of usage records of the coupon (so they
\* are equal when no request is in flight); used_count never decreases and
\* changes only by the increment that follows a record's insert.
C29_UsedCountMatchesLedger ==
    [][/\ \A c \in coupons' :
             c.used_count + Cardinality(Incrementing(req', c.coupon_id))
                = Cardinality(UsageOf(coupon_usage', c.coupon_id))
       /\ (\A q \in Reqs : req'[q].pc = "idle")
             => \A c \in coupons' :
                   c.used_count = Cardinality(UsageOf(coupon_usage', c.coupon_id))
       /\ \A c \in coupons, d \in coupons' :
             (d.coupon_id = c.coupon_id /\ d.used_count # c.used_count)
                => /\ d.used_count = c.used_count + 1
                   /\ \E q \in Incrementing(req, c.coupon_id) : req'[q].pc = "idle"]_vars

\* No request in flight, a coupon redeemed once through create_order and
\* once through /coupons/apply, and a coupon toggled off.
C29_Witness ==
    /\ \A q \in Reqs : req[q].pc = "idle"
    /\ \E c \in coupons : ~c.is_active
    /\ \E c \in coupons :
          /\ c.used_count = 2
          /\ \E i, j \in UsageOf(coupon_usage, c.coupon_id) :
                /\ \E k \in 1..Len(orders) : orders[k].order_id = coupon_usage[i].order_id
                /\ coupon_usage[j].order_subtotal = 60000
                /\ i # j

\* C30: every usage record names a persisted order of the same user that
\* carries the record's coupon code and discount, and no order has two
\* usage records.
C30_UsageBackedByOrder ==
    /\ \A i \in 1..Len(coupon_usage) :
          \E k \in 1..Len(orders) :
             /\ orders[k].order_id = coupon_usage[i].order_id
             /\ orders[k].user_id = coupon_usage[i].user_id
             /\ orders[k].coupon_code # None
             /\ Upper(Val(orders[k].coupon_code)) = coupon_usage[i].coupon_code
             /\ orders[k].coupon_discount = coupon_usage[i].discount_amount
    /\ \A i, j \in 1..Len(coupon_usage) :
          coupon_usage[i].order_id = coupon_usage[j].order_id => i = j

====
